---------------------------- MODULE Spec2Model ----------------------------
(***************************************************************************)
(* A model of src/python/nuc.py: the SwapForth engine (class SwapForth),   *)
(* its threaded variant (class AsyncSwapForth) and the host side of the    *)
(* handshake (class Tethered).                                             *)
(*                                                                         *)
(* The engine object is the record of its fields (Self); every method is   *)
(* an operator from an engine record to an engine record, written in the   *)
(* order of the statements of the method.  A Python exception is the field *)
(* exc: a method that raises returns the engine as the statements before   *)
(* the raise left it, with exc set.  The Python call stack of the engine   *)
(* thread is the field frames.                                             *)
(***************************************************************************)
EXTENDS Integers, Sequences, FiniteSets, TLC

VARIABLES
    d,          \* self.d: the data stack, top last
    r,          \* self.r: the return stack, top last
    ip,         \* self.ip
    loopC,      \* self.loopC
    loopL,      \* self.loopL
    leaves,     \* self.leaves
    ram,        \* self.ram: array of bytes; address a is ram[a + 1]
    out,        \* self.out: the writer in use (0 is sys.stdout.write)
    dict,       \* self.dict: a reference into dicts
    dicts,      \* the dict objects ever made (self.dict and MARKER copies)
    snaps,      \* per dict object, what it held when it was made
    xts,        \* self.xts
    code,       \* self.code: a reference into codes (0: attribute not set)
    codes,      \* the code lists ever made
    defining,   \* self.defining
    lastword,   \* self.lastword
    dosemi,     \* self.dosemi
    imm,        \* the partial objects carrying the attribute is_immediate
    nobj,       \* number of partial objects with an identity made so far
    frames,     \* the call stack of the engine thread
    exc,        \* the exception in flight, or the one that ended the thread
    ready,      \* Tethered.ready (threading.Event)
    cmdq,       \* Tethered.cmdq (Queue.Queue)
    host,       \* the host thread: where it is in Tethered.issue
    issued,     \* the (writer, cmd) pairs the host has put, in order
    gets,      \* per call of cmdq.get(): the depth of the call stack then
    log,        \* every call of a writer: the writer w, what it wrote (a
                \* character, an ok banner, an error banner with its code)
                \* and the command cmd that the main loop was running
    caught,     \* what the last exception return of CATCH saw
    restores,   \* the calls of the function restore of MARKER so far
    loops       \* the loops that dodo or qdodo has started: of those still
                \* running (open), the return-stack length, loopC and loopL
                \* at their start; of the last that UNLOOP has ended (the
                \* k-th), the same at its start (was) and at its end (now)

vars == <<d, r, ip, loopC, loopL, leaves, ram, out, dict, dicts, snaps, xts, code,
          codes, defining, lastword, dosemi, imm, nobj, frames, exc, ready,
          cmdq, host, issued, gets, log, caught, restores, loops>>

-----------------------------------------------------------------------------
(* Bounds of the model. *)

\* Nested calls of the engine thread: no step is taken from a deeper stack.
MaxFrames == 8
\* Commands the host issues, and phrases in one command, where the commands
\* allot and store (HERE).
HereCommands == 1
HerePhrases == 3
\* The same where the commands define and run a word with a DO ... +LOOP.
PlusLoopCommands == 1
PlusLoopPhrases == 1
\* The same where the commands exercise CATCH.
CatchCommands == 1
CatchPhrases == 3
\* The same where the commands exercise the handshake of host and engine.
ShellCommands == 2
ShellPhrases == 2
\* The same where the commands compile definitions with POSTPONE.
PostponeCommands == 1
PostponePhrases == 4
\* The same where the commands exercise the dispatch of interpret().
DispatchCommands == 1
DispatchPhrases == 3
\* The same where the commands make and run markers.
MarkerCommands == 1
MarkerPhrases == 4

-----------------------------------------------------------------------------
(* Python sequences: indices from 0, negative ones counted from the end.   *)

Max(a, b) == IF a >= b THEN a ELSE b
Min(a, b) == IF a <= b THEN a ELSE b

PyNorm(i, n) == IF i < 0 THEN Max(n + i, 0) ELSE Min(i, n)

\* s[lo:hi]
PySlice(s, lo, hi) ==
    LET a == PyNorm(lo, Len(s))
        b == PyNorm(hi, Len(s))
    IN  IF a >= b THEN <<>> ELSE SubSeq(s, a + 1, b)

\* s[lo:]
PyFrom(s, lo) == PySlice(s, lo, Len(s))

\* s[:hi]
PyTo(s, hi) == PySlice(s, 0, hi)

\* s[lo:hi] = v
PySetSlice(s, lo, hi, v) ==
    LET a == PyNorm(lo, Len(s))
        b == Max(a, PyNorm(hi, Len(s)))
    IN  SubSeq(s, 1, a) \o v \o SubSeq(s, b + 1, Len(s))

\* s[i] is defined
PyHas(s, i) == -Len(s) <= i /\ i < Len(s)

\* s[i]
PyAt(s, i) == s[IF i < 0 THEN Len(s) + i + 1 ELSE i + 1]

\* s[i] = x
PySet(s, i, x) == [s EXCEPT ![IF i < 0 THEN Len(s) + i + 1 ELSE i + 1] = x]

Last(s) == s[Len(s)]
Front(s) == SubSeq(s, 1, Len(s) - 1)

\* [0] * n
Zeros(n) == [i \in 1..n |-> 0]

\* s.index(x) for x in s
RECURSIVE IndexOf(_, _, _)
IndexOf(s, x, i) == IF s[i] = x THEN i - 1 ELSE IndexOf(s, x, i + 1)

InSeq(s, x) == \E i \in 1..Len(s) : s[i] = x

-----------------------------------------------------------------------------
(* Cells.  A cell is a signed 32-bit integer.  The checker's integers are  *)
(* 32 bits wide themselves, so a sum or a difference of two cells is       *)
(* wrapped without ever forming the unwrapped value.                       *)

MaxCell == 2147483647
MinCell == -MaxCell - 1

InCell(x) == MinCell <= x /\ x <= MaxCell

\* w32(a + b) for cells a and b
WrapAdd(a, b) ==
    IF a >= 0 /\ b >= 0 /\ b > MaxCell - a
        THEN (a + MinCell) + (b + MinCell)
    ELSE IF a < 0 /\ b < 0 /\ b < MinCell - a
        THEN (a - MinCell) + (b - MinCell)
    ELSE a + b

\* w32(-b) for a cell b
WrapNeg(b) == IF b = MinCell THEN MinCell ELSE -b

\* w32(a - b) for cells a and b
WrapSub(a, b) ==
    IF b = MinCell
        THEN (IF a < 0 THEN a - MinCell ELSE a + MinCell)
        ELSE WrapAdd(a, -b)

truth(pred) == IF pred THEN -1 ELSE 0

\* struct.pack('i', x) on a little-endian host, for a cell x
RECURSIVE LeBytes(_, _)
LeBytes(u, n) == IF n = 0 THEN <<>> ELSE <<u % 256>> \o LeBytes(u \div 256, n - 1)

pack(x) ==
    IF x >= 0 THEN LeBytes(x, 4)
    ELSE LET lo == LeBytes(x - MinCell, 4)   \* the low 31 bits of x
         IN  [lo EXCEPT ![4] = lo[4] + 128]

\* struct.unpack('i', b) for four bytes b
unpack(b) ==
    LET low == b[1] + 256 * b[2] + 65536 * b[3] + 16777216 * (b[4] % 128)
    IN  IF b[4] >= 128 THEN low + MinCell ELSE low

-----------------------------------------------------------------------------
(* The engine object and Python's exceptions.                              *)

Self == [d |-> d, r |-> r, ip |-> ip, loopC |-> loopC, loopL |-> loopL,
         leaves |-> leaves, ram |-> ram, out |-> out, dict |-> dict,
         dicts |-> dicts, snaps |-> snaps, xts |-> xts, code |-> code, codes |-> codes,
         defining |-> defining, lastword |-> lastword, dosemi |-> dosemi,
         imm |-> imm, nobj |-> nobj, frames |-> frames, exc |-> exc,
         ready |-> ready, gets |-> gets, log |-> log, caught |-> caught,
         restores |-> restores, loops |-> loops]

NoExc == [t |-> "", v |-> 0]

\* no exception is in flight
Ok(m) == m.exc.t = ""

\* raise t(): IndexError, ValueError, TypeError, AttributeError, KeyError,
\* AssertionError, ZeroDivisionError, OverflowError, struct.error
Err(m, t) == [m EXCEPT !.exc = [t |-> t, v |-> 0]]

\* raise ForthException(e)
ForthException(m, e) == [m EXCEPT !.exc = [t |-> "ForthException", v |-> e]]

\* f; g
Then(m, G(_)) == IF Ok(m) THEN G(m) ELSE m

\* v = ...; then F of v
Let(v, F(_)) == F(v)

\* self.d.pop(), the engine after it (the popped value is Last(m.d))
pop(m) == IF Len(m.d) = 0 THEN Err(m, "IndexError")
          ELSE [m EXCEPT !.d = Front(m.d)]

\* self.r.pop()
rpop(m) == IF Len(m.r) = 0 THEN Err(m, "IndexError")
           ELSE [m EXCEPT !.r = Front(m.r)]

lit(m, n) == [m EXCEPT !.d = Append(m.d, n)]

\* popn leaves self.d[:-n]; its result is PyFrom(m.d, -n)
popn(m, n) == [m EXCEPT !.d = PyTo(m.d, -n)]

-----------------------------------------------------------------------------
(* Memory.                                                                 *)

TIB_ADDR == 0
SOURCEA_ADDR == 256
SOURCEC_ADDR == 260
TO_IN_ADDR == 264
BASE_ADDR == 268
STATE_ADDR == 272

\* the cell at address a of a memory that holds it
Cell(mem, a) == unpack(SubSeq(mem, a + 1, a + 4))

tib(m) == lit(m, TIB_ADDR)
sourcea(m) == lit(m, SOURCEA_ADDR)
sourcec(m) == lit(m, SOURCEC_ADDR)
to_in(m) == lit(m, TO_IN_ADDR)
base(m) == lit(m, BASE_ADDR)
state(m) == lit(m, STATE_ADDR)

HERE(m) == lit(m, Len(m.ram))

fetch(m) ==
    LET m1 == pop(m)
        a == Last(m.d)
        b == PySlice(m.ram, a, a + 4)
    IN  IF ~Ok(m1) THEN m1
        ELSE IF Len(b) # 4 THEN Err(m1, "struct.error")
        ELSE lit(m1, unpack(b))

c_fetch(m) ==
    LET m1 == pop(m)
        a == Last(m.d)
    IN  IF ~Ok(m1) THEN m1
        ELSE IF ~PyHas(m.ram, a) THEN Err(m1, "IndexError")
        ELSE lit(m1, PyAt(m.ram, a))

\* store that writes the low byte of x only, as C! does
store_byte(m) ==
    LET m1 == pop(m)
        a == Last(m.d)
        m2 == pop(m1)
        x == Last(m1.d)
    IN  IF ~Ok(m1) THEN m1
        ELSE IF ~Ok(m2) THEN m2
        ELSE IF ~PyHas(m.ram, a) THEN Err(m2, "IndexError")
        ELSE [m2 EXCEPT !.ram = PySet(m.ram, a, pack(x)[1])]

store(m) ==
    LET m1 == pop(m)
        a == Last(m.d)
        m2 == pop(m1)
        x == Last(m1.d)
    IN  IF ~Ok(m1) THEN m1
        ELSE IF ~Ok(m2) THEN m2
        ELSE IF ~InCell(x) THEN Err(m2, "struct.error")
        ELSE [m2 EXCEPT !.ram = PySetSlice(m.ram, a, a + 4, pack(x))]

c_store(m) ==
    LET m1 == pop(m)
        a == Last(m.d)
        m2 == pop(m1)
        x == Last(m1.d)
    IN  IF ~Ok(m1) THEN m1
        ELSE IF ~Ok(m2) THEN m2
        ELSE IF ~PyHas(m.ram, a) THEN Err(m2, "IndexError")
        ELSE [m2 EXCEPT !.ram = PySet(m.ram, a, x % 256)]

comma(m) ==
    LET m1 == pop(m)
        x == Last(m.d)
    IN  IF ~Ok(m1) THEN m1
        ELSE IF ~InCell(x) THEN Err(m1, "struct.error")
        ELSE [m1 EXCEPT !.ram = m.ram \o pack(x)]

c_comma(m) ==
    LET m1 == pop(m)
        x == Last(m.d)
    IN  IF ~Ok(m1) THEN m1
        ELSE IF x < 0 \/ x > 255 THEN Err(m1, "OverflowError")
        ELSE [m1 EXCEPT !.ram = Append(m.ram, x)]

\* ALLOT that gives memory back for a negative n
ALLOT_release(m) ==
    LET m1 == pop(m)
        n == Last(m.d)
    IN  IF ~Ok(m1) THEN m1
        ELSE IF n < 0 THEN [m1 EXCEPT !.ram = PyTo(m.ram, n)]
        ELSE [m1 EXCEPT !.ram = m.ram \o Zeros(n)]

ALLOT(m) ==
    LET m1 == pop(m)
        n == Last(m.d)
    IN  IF ~Ok(m1) THEN m1
        ELSE [m1 EXCEPT !.ram = m.ram \o Zeros(n)]

SOURCE(m) == Then(Then(Then(sourcea(m), fetch), sourcec), fetch)

DECIMAL(m) == Then(Then(lit(m, 10), base), store)

-----------------------------------------------------------------------------
(* Stack words.                                                            *)

DUP(m) == IF Len(m.d) = 0 THEN Err(m, "IndexError") ELSE lit(m, Last(m.d))

DROP(m) == pop(m)

NIP(m) == IF Len(m.d) < 2 THEN Err(m, "IndexError")
          ELSE [m EXCEPT !.d = Append(PyTo(m.d, -2), Last(m.d))]

two_drop(m) == Then(pop(m), pop)

SWAP(m) ==
    IF Len(m.d) < 2 THEN Err(m, "IndexError")
    ELSE [m EXCEPT !.d = PyTo(m.d, -2) \o <<Last(m.d), PyAt(m.d, -2)>>]

OVER(m) == IF Len(m.d) < 2 THEN Err(m, "IndexError") ELSE lit(m, PyAt(m.d, -2))

TUCK(m) == Then(SWAP(m), OVER)

two_dup(m) == [m EXCEPT !.d = m.d \o PyFrom(m.d, -2)]

two_swap(m) ==
    IF Len(m.d) < 4 THEN Err(m, "IndexError")
    ELSE [m EXCEPT !.d = PyTo(m.d, -4) \o PyFrom(m.d, -2) \o PySlice(m.d, -4, -2)]

DEPTH(m) == lit(m, Len(m.d))

to_r(m) ==
    LET m1 == pop(m)
    IN  IF ~Ok(m1) THEN m1 ELSE [m1 EXCEPT !.r = Append(m.r, Last(m.d))]

r_from(m) ==
    LET m1 == rpop(m)
    IN  IF ~Ok(m1) THEN m1 ELSE lit(m1, Last(m.r))

r_fetch(m) == IF Len(m.r) = 0 THEN Err(m, "IndexError") ELSE lit(m, Last(m.r))

n_to_r(m) ==
    LET m1 == pop(m)
        n == Last(m.d)
        m2 == IF n # 0
              THEN [m1 EXCEPT !.r = m1.r \o PyFrom(m1.d, -n), !.d = PyTo(m1.d, -n)]
              ELSE m1
    IN  IF ~Ok(m1) THEN m1 ELSE [m2 EXCEPT !.r = Append(m2.r, n)]

n_r_from(m) ==
    LET m1 == rpop(m)
        n == Last(m.r)
        m2 == IF n # 0
              THEN [m1 EXCEPT !.d = m1.d \o PyFrom(m1.r, -n), !.r = PyTo(m1.r, -n)]
              ELSE m1
    IN  IF ~Ok(m1) THEN m1 ELSE lit(m2, n)

-----------------------------------------------------------------------------
(* Arithmetic.                                                             *)

\* binary(op) with op(a, b) given as w32(op(a, b))
binary(m, Op(_, _)) ==
    LET m1 == pop(m)
        b == Last(m.d)
    IN  IF ~Ok(m1) THEN m1
        ELSE IF Len(m1.d) = 0 THEN Err(m1, "IndexError")
        ELSE [m1 EXCEPT !.d = Append(Front(m1.d), Op(Last(m1.d), b))]

plus(m) == binary(m, WrapAdd)

minus(m) == binary(m, WrapSub)

NEGATE(m) == IF Len(m.d) = 0 THEN Err(m, "IndexError")
             ELSE [m EXCEPT !.d = Append(Front(m.d), WrapNeg(Last(m.d)))]

\* bit i (0..31) of the two's complement of the cell x
Bit(x, i) ==
    IF i = 31 THEN (IF x < 0 THEN 1 ELSE 0)
    ELSE ((IF x < 0 THEN x - MinCell ELSE x) \div (2 ^ i)) % 2

\* the byte with the bits b[i], ..., b[i + 7]
Weigh(b, i) ==
    b[i] + 2 * b[i + 1] + 4 * b[i + 2] + 8 * b[i + 3] + 16 * b[i + 4]
        + 32 * b[i + 5] + 64 * b[i + 6] + 128 * b[i + 7]

\* the cell whose two's complement has the bits b[0], ..., b[31]
FromBits(b) == unpack(<<Weigh(b, 0), Weigh(b, 8), Weigh(b, 16), Weigh(b, 24)>>)

\* w32(a & b), w32(a | b), w32(a ^ b) for cells a and b
BitAnd(a, b) == FromBits([i \in 0..31 |-> Bit(a, i) * Bit(b, i)])

BitOr(a, b) == FromBits([i \in 0..31 |-> Max(Bit(a, i), Bit(b, i))])

BitXor(a, b) == FromBits([i \in 0..31 |-> (Bit(a, i) + Bit(b, i)) % 2])

\* w32(a << n) for a cell a and n >= 0
ShiftL(a, n) ==
    IF n >= 32 THEN 0
    ELSE FromBits([i \in 0..31 |-> IF i >= n THEN Bit(a, i - n) ELSE 0])

\* w32((a & CMASK) >> n) for a cell a and n >= 0
ShiftR(a, n) ==
    IF n >= 32 THEN 0
    ELSE FromBits([i \in 0..31 |-> IF i + n <= 31 THEN Bit(a, i + n) ELSE 0])

\* w32(a >> n) for a cell a and n >= 0: the sign bit fills
ShiftR_signed(a, n) ==
    FromBits([i \in 0..31 |-> IF i + n <= 31 THEN Bit(a, i + n) ELSE Bit(a, 31)])

\* w32(a * b) for cells a and b: the four low bytes of the product of the
\* two's complements, byte by byte with carries
WrapMul(a, b) ==
    LET x == pack(a)
        y == pack(b)
        c0 == x[1] * y[1]
        c1 == x[1] * y[2] + x[2] * y[1] + c0 \div 256
        c2 == x[1] * y[3] + x[2] * y[2] + x[3] * y[1] + c1 \div 256
        c3 == x[1] * y[4] + x[2] * y[3] + x[3] * y[2] + x[4] * y[1] + c2 \div 256
    IN  unpack(<<c0 % 256, c1 % 256, c2 % 256, c3 % 256>>)

_and(m) == binary(m, BitAnd)

_or(m) == binary(m, BitOr)

_xor(m) == binary(m, BitXor)

\* a negative shift count raises ValueError in op, after binary has popped it
LSHIFT(m) ==
    IF Len(m.d) >= 2 /\ Last(m.d) < 0 THEN Err(pop(m), "ValueError")
    ELSE binary(m, ShiftL)

\* RSHIFT without the mask: a >> b on the signed cell
RSHIFT_signed(m) ==
    IF Len(m.d) >= 2 /\ Last(m.d) < 0 THEN Err(pop(m), "ValueError")
    ELSE binary(m, ShiftR_signed)

RSHIFT(m) ==
    IF Len(m.d) >= 2 /\ Last(m.d) < 0 THEN Err(pop(m), "ValueError")
    ELSE binary(m, ShiftR)

INVERT(m) ==
    IF Len(m.d) = 0 THEN Err(m, "IndexError")
    ELSE [m EXCEPT !.d = Append(Front(m.d),
                                FromBits([i \in 0..31 |-> 1 - Bit(Last(m.d), i)]))]

star(m) == binary(m, WrapMul)

MIN(m) ==
    LET m1 == pop(m)
        m2 == pop(m1)
    IN  IF ~Ok(m1) THEN m1
        ELSE IF ~Ok(m2) THEN m2
        ELSE lit(m2, Min(Last(m.d), Last(m1.d)))

slash_string(m) ==
    LET m1 == pop(m)
        n == Last(m.d)
    IN  IF ~Ok(m1) THEN m1
        ELSE IF Len(m1.d) < 2 THEN Err(m1, "IndexError")
        ELSE [m1 EXCEPT !.d = PyTo(m1.d, -2) \o
                                 <<PyAt(m1.d, -2) + n, Last(m1.d) - n>>]

-----------------------------------------------------------------------------
(* Callables.  A callable is [n, args, id]: the method n of the engine     *)
(* with the arguments functools.partial has bound to it.  A bound method   *)
(* equals every other bound method of the same name (id 0); a partial      *)
(* object that reaches the dictionary or the xt table equals only itself   *)
(* and has an id of its own.                                               *)

P(n) == [n |-> n, args |-> <<>>, id |-> 0]

Partial(n, args, id) == [n |-> n, args |-> args, id |-> id]

None == [n |-> "None", args |-> <<>>, id |-> 0]

\* the methods decorated with @setimmediate
ImmediatePrims == {"[", ";", "RECURSE", "POSTPONE", "LITERAL",
                   "BEGIN", "AGAIN", "AHEAD", "IF", "THEN", "UNTIL",
                   "DO", "LOOP", "+LOOP", "?DO", "LEAVE"}

\* hasattr(x, 'is_immediate')
is_immediate(m, x) == IF x.id = 0 THEN x.args = <<>> /\ x.n \in ImmediatePrims
                      ELSE x.id \in m.imm

\* the Forth names of the words of the model, as the bytes of their text
Spell ==
    "DUP" :> <<68, 85, 80>> @@
    "DROP" :> <<68, 82, 79, 80>> @@
    "SWAP" :> <<83, 87, 65, 80>> @@
    "OVER" :> <<79, 86, 69, 82>> @@
    "NIP" :> <<78, 73, 80>> @@
    "TUCK" :> <<84, 85, 67, 75>> @@
    "2DUP" :> <<50, 68, 85, 80>> @@
    "2DROP" :> <<50, 68, 82, 79, 80>> @@
    ">R" :> <<62, 82>> @@
    "R>" :> <<82, 62>> @@
    "R@" :> <<82, 64>> @@
    "N>R" :> <<78, 62, 82>> @@
    "NR>" :> <<78, 82, 62>> @@
    "DEPTH" :> <<68, 69, 80, 84, 72>> @@
    "+" :> <<43>> @@
    "-" :> <<45>> @@
    "MIN" :> <<77, 73, 78>> @@
    "NEGATE" :> <<78, 69, 71, 65, 84, 69>> @@
    "UM/MOD" :> <<85, 77, 47, 77, 79, 68>> @@
    "@" :> <<64>> @@
    "!" :> <<33>> @@
    "C@" :> <<67, 64>> @@
    "C!" :> <<67, 33>> @@
    "," :> <<44>> @@
    "C," :> <<67, 44>> @@
    "HERE" :> <<72, 69, 82, 69>> @@
    "ALLOT" :> <<65, 76, 76, 79, 84>> @@
    "THROW" :> <<84, 72, 82, 79, 87>> @@
    "CATCH" :> <<67, 65, 84, 67, 72>> @@
    "EXECUTE" :> <<69, 88, 69, 67, 85, 84, 69>> @@
    "SOURCE" :> <<83, 79, 85, 82, 67, 69>> @@
    "/STRING" :> <<47, 83, 84, 82, 73, 78, 71>> @@
    "PARSE" :> <<80, 65, 82, 83, 69>> @@
    "PARSE-NAME" :> <<80, 65, 82, 83, 69, 45, 78, 65, 77, 69>> @@
    "SFIND" :> <<83, 70, 73, 78, 68>> @@
    ">NUMBER" :> <<62, 78, 85, 77, 66, 69, 82>> @@
    "EVALUATE" :> <<69, 86, 65, 76, 85, 65, 84, 69>> @@
    "REFILL" :> <<82, 69, 70, 73, 76, 76>> @@
    "ACCEPT" :> <<65, 67, 67, 69, 80, 84>> @@
    ":" :> <<58>> @@
    ";" :> <<59>> @@
    "[" :> <<91>> @@
    "]" :> <<93>> @@
    "POSTPONE" :> <<80, 79, 83, 84, 80, 79, 78, 69>> @@
    "LITERAL" :> <<76, 73, 84, 69, 82, 65, 76>> @@
    "COMPILE," :> <<67, 79, 77, 80, 73, 76, 69, 44>> @@
    "IMMEDIATE" :> <<73, 77, 77, 69, 68, 73, 65, 84, 69>> @@
    ":NONAME" :> <<58, 78, 79, 78, 65, 77, 69>> @@
    "RECURSE" :> <<82, 69, 67, 85, 82, 83, 69>> @@
    "EXIT" :> <<69, 88, 73, 84>> @@
    "MARKER" :> <<77, 65, 82, 75, 69, 82>> @@
    "DECIMAL" :> <<68, 69, 67, 73, 77, 65, 76>> @@
    "EMIT" :> <<69, 77, 73, 84>> @@
    "*" :> <<42>> @@
    "AND" :> <<65, 78, 68>> @@
    "OR" :> <<79, 82>> @@
    "XOR" :> <<88, 79, 82>> @@
    "LSHIFT" :> <<76, 83, 72, 73, 70, 84>> @@
    "RSHIFT" :> <<82, 83, 72, 73, 70, 84>> @@
    "INVERT" :> <<73, 78, 86, 69, 82, 84>> @@
    "BEGIN" :> <<66, 69, 71, 73, 78>> @@
    "AGAIN" :> <<65, 71, 65, 73, 78>> @@
    "AHEAD" :> <<65, 72, 69, 65, 68>> @@
    "IF" :> <<73, 70>> @@
    "THEN" :> <<84, 72, 69, 78>> @@
    "UNTIL" :> <<85, 78, 84, 73, 76>> @@
    "DO" :> <<68, 79>> @@
    "LOOP" :> <<76, 79, 79, 80>> @@
    "+LOOP" :> <<43, 76, 79, 79, 80>> @@
    "?DO" :> <<63, 68, 79>> @@
    "I" :> <<73>> @@
    "UNLOOP" :> <<85, 78, 76, 79, 79, 80>> @@
    "LEAVE" :> <<76, 69, 65, 86, 69>> @@
    "BL" :> <<66, 76>>

\* the cells that allot() made in __init__, in the dictionary under their
\* docstrings: partial(self.lit, address)
Allotted ==
    <<84, 73, 66>> :> Partial("lit", <<TIB_ADDR>>, 1) @@
    <<83, 79, 85, 82, 67, 69, 65>> :> Partial("lit", <<SOURCEA_ADDR>>, 2) @@
    <<83, 79, 85, 82, 67, 69, 67>> :> Partial("lit", <<SOURCEC_ADDR>>, 3) @@
    <<62, 73, 78>> :> Partial("lit", <<TO_IN_ADDR>>, 4) @@
    <<66, 65, 83, 69>> :> Partial("lit", <<BASE_ADDR>>, 5) @@
    <<83, 84, 65, 84, 69>> :> Partial("lit", <<STATE_ADDR>>, 6)

\* self.dict as __init__ leaves it, for the words of the model
InitDict ==
    [k \in {Spell[w] : w \in DOMAIN Spell} |->
        P(CHOOSE w \in DOMAIN Spell : Spell[w] = k)] @@ Allotted

\* the text of a word of q(): a name above, a name of Allotted, or a number
QText(w) ==
    CASE w \in DOMAIN Spell -> Spell[w]
      [] w = "TIB" -> <<84, 73, 66>>
      [] w = "SOURCEA" -> <<83, 79, 85, 82, 67, 69, 65>>
      [] w = "SOURCEC" -> <<83, 79, 85, 82, 67, 69, 67>>
      [] w = ">IN" -> <<62, 73, 78>>
      [] w = "DNEGATE" -> <<68, 78, 69, 71, 65, 84, 69>>
      [] w = "0" -> <<48>>
      [] w = "1" -> <<49>>

\* self.dict
CurDict(m) == m.dicts[m.dict]

\* self.dict[k] = x
DictPut(m, k, x) ==
    [m EXCEPT !.dicts[m.dict] =
        [j \in (DOMAIN @) \cup {k} |-> IF j = k THEN x ELSE @[j]]]

\* s.upper()
upper(s) == [i \in 1..Len(s) |-> IF 97 <= s[i] /\ s[i] <= 122 THEN s[i] - 32 ELSE s[i]]

\* self.xts after xt(c)
xts_after(m, c) == IF InSeq(m.xts, c) THEN m ELSE [m EXCEPT !.xts = Append(@, c)]

\* xt that returns the token of the last entry of the table
xt_last(m, c) == Len(xts_after(m, c).xts) + 999

\* the value of xt(c)
xt(m, c) == IndexOf(xts_after(m, c).xts, c, 1) + 1000

\* pops leaves the stack two shorter; its result is pops_s(m)
pops(m) == Then(pop(m), pop)

pops_s(m) == LET n == Last(m.d)
                 a == PyAt(m.d, -2)
             IN  PySlice(m.ram, a, a + n)

THROW(m) ==
    LET m1 == pop(m)
        e == Last(m.d)
    IN  IF ~Ok(m1) THEN m1
        ELSE IF e # 0 THEN ForthException(m1, e)
        ELSE m1

SFIND(m) ==
    IF Len(m.d) < 2 THEN Err(m, "ValueError")
    ELSE LET a == PyAt(m.d, -2)
             n == Last(m.d)
             s == upper(PySlice(m.ram, a, a + n))
         IN  IF s \in DOMAIN CurDict(m)
             THEN LET x == CurDict(m)[s]
                      m1 == xts_after(m, x)
                  IN  [m1 EXCEPT !.d = PyTo(m.d, -2) \o
                          <<xt(m, x), IF is_immediate(m, x) THEN 1 ELSE -1>>]
             ELSE lit(m, 0)

-----------------------------------------------------------------------------
(* Parsing.  The methods of the engine call one another, directly and     *)
(* through the dictionary.  Run(m, c) is the call c made on the engine m:  *)
(* <<"q", ws>> for q(s) with the words ws of s, <<"parse_name">>,          *)
(* <<"call", e>> for e() with a callable e, <<"return">> for the return of *)
(* the callee of the top frame, <<"raise">> for an exception in flight,    *)
(* and the steps of the engine thread.  It is defined after the methods.   *)

RECURSIVE Run(_, _)

\* the loop of skip() in parse_name and of PARSE on the string (a, n) on top
\* of the stack: <<a, n, raised>>; the loop breaks at a byte c with
\* (c = ch) = eq
\* the loop of skip() and of PARSE over the string (a, n): it ends after k
\* characters at the first k where the string is used up or the character
\* at a + k breaks the loop ((c = ch) = eq), or fails where a + k is no index
\* of mem; the result is the string left and whether the loop failed
Scan(mem, a, n, ch, eq) ==
    LET stop(k) == \/ n - k = 0
                   \/ ~PyHas(mem, a + k)
                   \/ (PyAt(mem, a + k) = ch) = eq
        k0 == CHOOSE k \in 0..Max(0, Len(mem) - a) :
                  stop(k) /\ \A j \in 0..(k - 1) : ~stop(j)
    IN  <<a + k0, n - k0, n - k0 # 0 /\ ~PyHas(mem, a + k0)>>

skip(m, ch, eq) ==
    IF Len(m.d) < 2 THEN Err(m, "IndexError")
    ELSE Let(Scan(m.ram, PyAt(m.d, -2), Last(m.d), ch, eq), LAMBDA s :
             LET m1 == [m EXCEPT !.d = PyTo(m.d, -2) \o <<s[1], s[2]>>]
             IN  IF s[3] THEN Err(m1, "IndexError") ELSE m1)

\* PARSE-NAME that does not skip the spaces before the name
parse_name_unskipped(m) ==
    Then(Then(Then(Then(
        Run(m, <<"q", <<"SOURCE", ">IN", "@", "/STRING">>>>),
        LAMBDA x : Run(x, <<"q", <<"OVER", ">R">>>>)),
        LAMBDA x : skip(x, 32, TRUE)),
        LAMBDA x : Run(x, <<"q", <<"2DUP", "1", "MIN", "+", "SOURCE",
                                   "DROP", "-", ">IN", "!">>>>)),
        LAMBDA x : Run(x, <<"q", <<"DROP", "R>", "TUCK", "-">>>>))

parse_name(m) ==
    Then(Then(Then(Then(Then(
        Run(m, <<"q", <<"SOURCE", ">IN", "@", "/STRING">>>>),
        LAMBDA x : skip(x, 32, FALSE)),
        LAMBDA x : Run(x, <<"q", <<"OVER", ">R">>>>)),
        LAMBDA x : skip(x, 32, TRUE)),
        LAMBDA x : Run(x, <<"q", <<"2DUP", "1", "MIN", "+", "SOURCE",
                                   "DROP", "-", ">IN", "!">>>>)),
        LAMBDA x : Run(x, <<"q", <<"DROP", "R>", "TUCK", "-">>>>))

PARSE(m) ==
    Then(Then(Then(Then(Then(
        pop(m),
        LAMBDA x : Run(x, <<"q", <<"SOURCE", ">IN", "@", "/STRING">>>>)),
        LAMBDA x : Run(x, <<"q", <<"OVER", ">R">>>>)),
        LAMBDA x : skip(x, Last(m.d), TRUE)),
        LAMBDA x : Run(x, <<"q", <<"2DUP", "1", "MIN", "+", "SOURCE",
                                   "DROP", "-", ">IN", "!">>>>)),
        LAMBDA x : Run(x, <<"q", <<"DROP", "R>", "TUCK", "-">>>>))

-----------------------------------------------------------------------------
(* Numbers.  A Python integer of the engine is a value of the checker while *)
(* it is a cell; a double cell (lo, hi) is one while it is the sign         *)
(* extension of lo.  Unmodelled marks an engine beyond that.                *)

\* dlit(x) for a cell x: x & CMASK as a cell, then x >> 32
dlit(m, x) == lit(lit(m, x), IF x < 0 THEN -1 ELSE 0)

\* dpop leaves the stack two shorter; its result is dpop_v(m)
dpop(m) ==
    LET m1 == Then(pop(m), pop)
    IN  IF ~Ok(m1) THEN m1
        ELSE IF Last(m.d) = (IF PyAt(m.d, -2) < 0 THEN -1 ELSE 0) THEN m1
        ELSE Err(m1, "Unmodelled")

dpop_v(m) == PyAt(m.d, -2)

\* int(chr(c), b) raises ValueError
BadDigit(c, b) ==
    LET v == IF 48 <= c /\ c <= 57 THEN c - 48
             ELSE IF 65 <= c /\ c <= 90 THEN c - 55
             ELSE IF 97 <= c /\ c <= 122 THEN c - 87
             ELSE 99
    IN  IF b = 0 THEN v > 9 ELSE b < 2 \/ b > 36 \/ v >= b

\* int(chr(c), b)
Digit(c, b) == IF c <= 57 THEN c - 48 ELSE IF c <= 90 THEN c - 55 ELSE c - 87

\* the loop of to_number: <<ud2, a, n, raised>>
RECURSIVE Accumulate(_, _, _, _, _)
Accumulate(mem, b, ud2, a, n) ==
    IF n = 0 THEN <<ud2, a, n, FALSE>>
    ELSE IF ~PyHas(mem, a) THEN <<ud2, a, n, TRUE>>
    ELSE IF BadDigit(PyAt(mem, a), b) THEN <<ud2, a, n, FALSE>>
    ELSE Accumulate(mem, b, b * ud2 + Digit(PyAt(mem, a), b), a + 1, n - 1)

\* to_number(base); given is FALSE for base = None
to_number(m, given, b0) ==
    Let(IF given THEN m ELSE Then(Then(base(m), fetch), pop), LAMBDA m1 :
        IF ~Ok(m1) THEN m1
        ELSE IF Len(m1.d) < 2 THEN Err(popn(m1, 2), "ValueError")
        ELSE Let(dpop(popn(m1, 2)), LAMBDA m3 :
             IF ~Ok(m3) THEN m3
             ELSE Let(Accumulate(m.ram,
                                 IF given THEN b0 ELSE Cell(m.ram, BASE_ADDR),
                                 dpop_v(popn(m1, 2)), PyAt(m1.d, -2), Last(m1.d)),
                      LAMBDA acc :
                  IF acc[4] THEN Err(m3, "IndexError")
                  ELSE IF ~InCell(acc[1]) THEN Err(m3, "Unmodelled")
                  ELSE lit(lit(dlit(m3, acc[1]), acc[2]), acc[3]))))

-----------------------------------------------------------------------------
(* The compiler.                                                           *)

\* self.code.append(c), with self.code set
code_append(m, c) == [m EXCEPT !.codes[m.code] = Append(@, c)]

\* self.code = []
new_code(m) == [m EXCEPT !.codes = Append(@, <<>>), !.code = Len(m.codes) + 1]

left_paren(m) == Then(Then(lit(m, 0), state), store)

right_paren(m) == Then(Then(lit(m, 1), state), store)

mkheader(m) ==
    Let(Then(Run(m, <<"parse_name">>), new_code), LAMBDA m2 :
        Let(Then(m2, pops), LAMBDA m3 :
            IF ~Ok(m3) THEN m3 ELSE [m3 EXCEPT !.defining = upper(pops_s(m2))]))

colon(m) ==
    Let(Then(mkheader(m), right_paren), LAMBDA m1 :
        IF ~Ok(m1) THEN m1 ELSE [m1 EXCEPT !.dosemi = "endcolon"])

endcolon(m) ==
    LET w == Partial("inner", <<m.code>>, m.nobj + 1)
    IN  DictPut([m EXCEPT !.lastword = w, !.nobj = @ + 1], m.defining, w)

endnoname(m) ==
    LET w == Partial("inner", <<m.code>>, m.nobj + 1)
        m1 == xts_after([m EXCEPT !.nobj = @ + 1], w)
    IN  lit(m1, xt(m1, w))

semicolon(m) ==
    LET m1 == CASE m.dosemi = "endcolon" -> endcolon(m)
                [] m.dosemi = "endnoname" -> endnoname(m)
                [] OTHER -> Err(m, "AttributeError")
    IN  Then(m1, left_paren)

RECURSE(m) ==
    IF m.code = 0 THEN Err(m, "AttributeError")
    ELSE code_append(m, Partial("inner", <<m.code>>, 0))

noname(m) ==
    LET m1 == Then(new_code(m), right_paren)
    IN  IF ~Ok(m1) THEN m1 ELSE [m1 EXCEPT !.dosemi = "endnoname"]

IMMEDIATE(m) ==
    IF m.lastword = None THEN Err(m, "AttributeError")
    ELSE [m EXCEPT !.imm = @ \cup {m.lastword.id}]

LITERAL(m) ==
    LET m1 == pop(m)
    IN  IF m.code = 0 THEN Err(m, "AttributeError")
        ELSE IF ~Ok(m1) THEN m1
        ELSE code_append(m1, Partial("lit", <<Last(m.d)>>, 0))

compile_comma(m) ==
    LET m1 == pop(m)
        i == Last(m.d) - 1000
    IN  IF m.code = 0 THEN Err(m, "AttributeError")
        ELSE IF ~Ok(m1) THEN m1
        ELSE IF ~PyHas(m.xts, i) THEN Err(m1, "IndexError")
        ELSE code_append(m1, PyAt(m.xts, i))

\* POSTPONE with the two cases the other way round: literal and COMPILE,
\* for an immediate word, the word itself for a non-immediate one
POSTPONE_swapped(m) ==
    Let(Then(Run(m, <<"parse_name">>), SFIND), LAMBDA m1 :
        IF ~Ok(m1) THEN m1
        ELSE IF Last(m1.d) = 0 THEN Then(Then(DROP(m1), pops),
                                         LAMBDA x : Err(x, "AssertionError"))
        ELSE IF Last(m1.d) > 0
             THEN Then(Then(LITERAL(pop(m1)),
                            LAMBDA x : lit(xts_after(x, P("COMPILE,")),
                                           xt(x, P("COMPILE,")))),
                       compile_comma)
        ELSE compile_comma(pop(m1)))

POSTPONE(m) ==
    Let(Then(Run(m, <<"parse_name">>), SFIND), LAMBDA m1 :
        IF ~Ok(m1) THEN m1
        ELSE IF Last(m1.d) = 0 THEN Then(Then(DROP(m1), pops),
                                         LAMBDA x : Err(x, "AssertionError"))
        ELSE IF Last(m1.d) < 0
             THEN Then(Then(LITERAL(pop(m1)),
                            LAMBDA x : lit(xts_after(x, P("COMPILE,")),
                                           xt(x, P("COMPILE,")))),
                       compile_comma)
        ELSE compile_comma(pop(m1)))

EXIT(m) == [m EXCEPT !.ip = 99999999]

\* the function restore of MARKER, as partial(restore, here, dict)
restore(m, here, dict_) ==
    [m EXCEPT !.ram = PyTo(m.ram, here), !.dict = dict_, !.restores = @ + 1]

MARKER(m) ==
    Let(Run(m, <<"parse_name">>), LAMBDA m1 :
        Let(Then(m1, pops), LAMBDA m2 :
            IF ~Ok(m2) THEN m2
            ELSE LET name == upper(pops_s(m1))
                     \* copy.copy(self.dict)
                     m3 == [m2 EXCEPT !.dicts = Append(@, CurDict(m2)),
                                      !.snaps = Append(@, CurDict(m2)),
                                      !.nobj = @ + 1]
                 IN  DictPut(m3, name,
                             Partial("restore", <<Len(m2.ram), Len(m3.dicts)>>,
                                     m3.nobj))))

branch(m, x) == [m EXCEPT !.ip = x]

zbranch(m, x) ==
    LET m1 == pop(m)
    IN  IF ~Ok(m1) THEN m1
        ELSE IF Last(m.d) = 0 THEN [m1 EXCEPT !.ip = x]
        ELSE m1

-----------------------------------------------------------------------------
(* Control structures.  self.code[p] is m.codes[m.code] at index p.        *)

\* len(self.code), with self.code set
CodeLen(m) == Len(m.codes[m.code])

BEGIN(m) == IF m.code = 0 THEN Err(m, "AttributeError") ELSE lit(m, CodeLen(m))

AGAIN(m) ==
    LET m1 == pop(m)
    IN  IF m.code = 0 THEN Err(m, "AttributeError")
        ELSE IF ~Ok(m1) THEN m1
        ELSE code_append(m1, Partial("branch", <<Last(m.d)>>, 0))

AHEAD(m) ==
    IF m.code = 0 THEN Err(m, "AttributeError")
    ELSE code_append(lit(m, CodeLen(m)), P("branch"))

m_if(m) ==
    IF m.code = 0 THEN Err(m, "AttributeError")
    ELSE code_append(lit(m, CodeLen(m)), P("zbranch"))

\* partial(c[p], len(c)) put at c[p]
Patch(c, p) ==
    PySet(c, p, Partial(PyAt(c, p).n, PyAt(c, p).args \o <<Len(c)>>, 0))

\* THEN that takes the mark and leaves the branch as it is
m_then_forgets(m) ==
    LET m1 == pop(m)
        p == Last(m.d)
    IN  IF ~Ok(m1) THEN m1
        ELSE IF m.code = 0 THEN Err(m1, "AttributeError")
        ELSE IF ~PyHas(m.codes[m.code], p) THEN Err(m1, "IndexError")
        ELSE m1

\* THEN
m_then(m) ==
    LET m1 == pop(m)
        p == Last(m.d)
    IN  IF ~Ok(m1) THEN m1
        ELSE IF m.code = 0 THEN Err(m1, "AttributeError")
        ELSE IF ~PyHas(m.codes[m.code], p) THEN Err(m1, "IndexError")
        ELSE [m1 EXCEPT !.codes[m.code] = Patch(@, p)]

UNTIL(m) ==
    LET m1 == pop(m)
    IN  IF m.code = 0 THEN Err(m, "AttributeError")
        ELSE IF ~Ok(m1) THEN m1
        ELSE code_append(m1, Partial("zbranch", <<Last(m.d)>>, 0))

dodo(m) ==
    LET m1 == [m EXCEPT !.r = @ \o <<m.loopC, m.loopL>>]
    IN  IF Len(m.d) = 0 THEN Err(m1, "IndexError")
        ELSE IF Len(m.d) = 1
            THEN Err([m1 EXCEPT !.loopC = Last(m.d), !.d = <<>>], "IndexError")
        ELSE [m1 EXCEPT !.loopC = Last(m.d), !.loopL = PyAt(m.d, -2),
                        !.d = PyTo(m.d, -2),
                        !.loops.open = Append(@, <<Len(m.r), m.loopC, m.loopL>>)]

\* qdodo that compares the arguments and keeps them
qdodo_keeps(m) ==
    LET m1 == [m EXCEPT !.r = @ \o <<m.loopC, m.loopL>>]
    IN  IF Len(m.d) = 0 THEN Err(m1, "IndexError")
        ELSE IF Len(m.d) = 1 THEN Err([m1 EXCEPT !.loopC = Last(m.d)], "IndexError")
        ELSE lit([m1 EXCEPT !.loopC = Last(m.d), !.loopL = PyAt(m.d, -2),
                            !.loops.open = Append(@, <<Len(m.r), m.loopC, m.loopL>>)],
                 BitXor(Last(m.d), PyAt(m.d, -2)))

qdodo(m) ==
    LET m1 == [m EXCEPT !.r = @ \o <<m.loopC, m.loopL>>]
    IN  IF Len(m.d) = 0 THEN Err(m1, "IndexError")
        ELSE IF Len(m.d) = 1 THEN Err([m1 EXCEPT !.loopC = Last(m.d)], "IndexError")
        ELSE _xor([m1 EXCEPT !.loopC = Last(m.d), !.loopL = PyAt(m.d, -2),
                             !.loops.open = Append(@, <<Len(m.r), m.loopC, m.loopL>>)])

\* doloop that ends when the index has reached the limit, compared as
\* signed cells without the wrapped difference
doloop_reached(m) ==
    LET m1 == pop(m)
        inc == Last(m.d)
        c == WrapAdd(m.loopC, inc)
        finish == IF inc > 0 THEN c >= m.loopL ELSE c < m.loopL
    IN  IF ~Ok(m1) THEN m1
        ELSE lit([m1 EXCEPT !.loopC = c], IF finish THEN 1 ELSE 0)

\* doloop; finish is pushed as 1 for True and 0 for False
doloop(m) ==
    LET m1 == pop(m)
        inc == Last(m.d)
        before == WrapSub(m.loopC, m.loopL) < 0
        c == WrapAdd(m.loopC, inc)
        after == WrapSub(c, m.loopL) < 0
        finish == IF inc > 0 THEN before /\ ~after ELSE ~before /\ after
    IN  IF ~Ok(m1) THEN m1
        ELSE lit([m1 EXCEPT !.loopC = c], IF finish THEN 1 ELSE 0)

DO(m) ==
    LET m1 == [m EXCEPT !.leaves = Append(@, <<>>)]
    IN  IF m.code = 0 THEN Err(m1, "AttributeError")
        ELSE Let(code_append(m1, P("dodo")), LAMBDA m2 : lit(m2, CodeLen(m2)))

\* the loop over the leaves in +LOOP: the code list after it
RECURSIVE PatchAll(_, _)
PatchAll(c, ps) ==
    IF ps = <<>> \/ ~PyHas(c, Head(ps)) THEN c
    ELSE PatchAll(Patch(c, Head(ps)), Tail(ps))

\* +LOOP that appends UNLOOP before it resolves the leaves, so that LEAVE
\* branches past UNLOOP
plus_loop_late(m) ==
    IF m.code = 0 THEN Err(m, "AttributeError")
    ELSE Let(UNTIL(code_append(m, P("doloop"))), LAMBDA m1 :
         IF ~Ok(m1) THEN m1
         ELSE IF m1.leaves = <<>> THEN Err(m1, "IndexError")
         ELSE Let(code_append(m1, P("UNLOOP")), LAMBDA m2 :
              [m2 EXCEPT !.leaves = Front(@),
                         !.codes[m.code] = PatchAll(@, Last(m1.leaves))]))

\* +LOOP
plus_loop(m) ==
    IF m.code = 0 THEN Err(m, "AttributeError")
    ELSE Let(UNTIL(code_append(m, P("doloop"))), LAMBDA m1 :
         IF ~Ok(m1) THEN m1
         ELSE IF m1.leaves = <<>> THEN Err(m1, "IndexError")
         ELSE Let([m1 EXCEPT !.leaves = Front(@),
                             !.codes[m.code] = PatchAll(@, Last(m1.leaves))],
                  LAMBDA m2 :
              IF \E i \in 1..Len(Last(m1.leaves)) :
                    ~PyHas(m1.codes[m.code], Last(m1.leaves)[i])
              THEN Err(m2, "IndexError")
              ELSE code_append(m2, P("UNLOOP"))))

LOOP(m) == Then(Then(lit(m, 1), LITERAL), plus_loop)

\* ?DO
question_do(m) ==
    IF m.code = 0 THEN Err(m, "AttributeError")
    ELSE Let(code_append(m, P("qdodo")), LAMBDA m1 :
         Let(code_append([m1 EXCEPT !.leaves = Append(@, <<CodeLen(m1)>>)],
                         P("zbranch")), LAMBDA m2 :
             lit(m2, CodeLen(m2))))

I(m) == lit(m, m.loopC)

UNLOOP(m) ==
    LET m1 == rpop(m)
        m2 == rpop(m1)
    IN  IF ~Ok(m1) THEN m1
        ELSE IF ~Ok(m2) THEN [m2 EXCEPT !.loopL = Last(m.r)]
        ELSE [m2 EXCEPT !.loopL = Last(m.r), !.loopC = Last(m1.r),
                        !.loops = IF @.open = <<>> THEN @
                                  ELSE [open |-> Front(@.open), k |-> @.k + 1,
                                        was |-> Last(@.open),
                                        now |-> <<Len(m2.r), Last(m1.r), Last(m.r)>>]]

LEAVE(m) ==
    IF m.leaves = <<>> THEN Err(m, "IndexError")
    ELSE IF m.code = 0 THEN Err(m, "AttributeError")
    ELSE code_append([m EXCEPT !.leaves[Len(m.leaves)] = Append(@, CodeLen(m))],
                     P("branch"))

-----------------------------------------------------------------------------
(* Output and division.                                                    *)

\* self.out(c)
\* the command that the main loop is running: the last one that the
\* REFILL of the main loop took off cmdq
Cur(m) == LET K == {k \in 1..Len(m.gets) : m.gets[k] = 2}
          IN  IF K = {} THEN 0 ELSE CHOOSE k \in K : \A j \in K : j <= k

write(m, s, v) ==
    [m EXCEPT !.log = Append(@, [w |-> m.out, s |-> s, v |-> v, cmd |-> Cur(m)])]

EMIT(m) ==
    LET m1 == pop(m)
        c == Last(m.d)
    IN  IF ~Ok(m1) THEN m1
        ELSE IF c < 0 \/ c > 255 THEN Err(m1, "ValueError")
        ELSE write(m1, "char", c)

BL(m) == lit(m, 32)

\* UM/MOD; the quotient and remainder are modelled for operands >= 0
u_m_slash_mod(m) ==
    LET m1 == pop(m)
        u1 == Last(m.d)
        m2 == Then(Then(m1, pop), pop)
        ud == dpop_v(m1)
    IN  IF ~Ok(m2) THEN m2
        ELSE IF u1 = 0 THEN Err(m2, "ZeroDivisionError")
        ELSE IF u1 < 0 \/ ud < 0 \/ Last(m1.d) # 0 THEN Err(m2, "Unmodelled")
        ELSE lit(lit(m2, ud % u1), ud \div u1)

-----------------------------------------------------------------------------
(* Calling a callable that returns without calling back into the           *)
(* interpreter.                                                            *)

\* the number of arguments the method takes after self
Arity(n) == CASE n \in {"lit", "inner", "branch", "zbranch"} -> 1
              [] n = "restore" -> 2
              [] OTHER -> 0

\* the methods that run other callables or wait for the host
Control == {"EXECUTE", "CATCH", "EVALUATE", "REFILL", "ACCEPT", "interpret", "inner"}

Atomic(m, e) ==
    CASE e.n = "lit" -> lit(m, e.args[1])
      [] e.n = "branch" -> branch(m, e.args[1])
      [] e.n = "zbranch" -> zbranch(m, e.args[1])
      [] e.n = "restore" -> restore(m, e.args[1], e.args[2])
      [] e.n = "DUP" -> DUP(m)
      [] e.n = "DROP" -> DROP(m)
      [] e.n = "SWAP" -> SWAP(m)
      [] e.n = "OVER" -> OVER(m)
      [] e.n = "NIP" -> NIP(m)
      [] e.n = "TUCK" -> TUCK(m)
      [] e.n = "2DUP" -> two_dup(m)
      [] e.n = "2DROP" -> two_drop(m)
      [] e.n = ">R" -> to_r(m)
      [] e.n = "R>" -> r_from(m)
      [] e.n = "R@" -> r_fetch(m)
      [] e.n = "N>R" -> n_to_r(m)
      [] e.n = "NR>" -> n_r_from(m)
      [] e.n = "DEPTH" -> DEPTH(m)
      [] e.n = "+" -> plus(m)
      [] e.n = "-" -> minus(m)
      [] e.n = "MIN" -> MIN(m)
      [] e.n = "NEGATE" -> NEGATE(m)
      [] e.n = "UM/MOD" -> u_m_slash_mod(m)
      [] e.n = "@" -> fetch(m)
      [] e.n = "!" -> store(m)
      [] e.n = "C@" -> c_fetch(m)
      [] e.n = "C!" -> c_store(m)
      [] e.n = "," -> comma(m)
      [] e.n = "C," -> c_comma(m)
      [] e.n = "HERE" -> HERE(m)
      [] e.n = "ALLOT" -> ALLOT(m)
      [] e.n = "THROW" -> THROW(m)
      [] e.n = "SOURCE" -> SOURCE(m)
      [] e.n = "/STRING" -> slash_string(m)
      [] e.n = "PARSE" -> PARSE(m)
      [] e.n = "PARSE-NAME" -> Run(m, <<"parse_name">>)
      [] e.n = "SFIND" -> SFIND(m)
      [] e.n = ">NUMBER" -> to_number(m, FALSE, 0)
      [] e.n = ":" -> colon(m)
      [] e.n = ";" -> semicolon(m)
      [] e.n = "[" -> left_paren(m)
      [] e.n = "]" -> right_paren(m)
      [] e.n = "POSTPONE" -> POSTPONE(m)
      [] e.n = "LITERAL" -> LITERAL(m)
      [] e.n = "COMPILE," -> compile_comma(m)
      [] e.n = "IMMEDIATE" -> IMMEDIATE(m)
      [] e.n = ":NONAME" -> noname(m)
      [] e.n = "RECURSE" -> RECURSE(m)
      [] e.n = "EXIT" -> EXIT(m)
      [] e.n = "MARKER" -> MARKER(m)
      [] e.n = "DECIMAL" -> DECIMAL(m)
      [] e.n = "EMIT" -> EMIT(m)
      [] e.n = "BL" -> BL(m)
      [] e.n = "*" -> star(m)
      [] e.n = "AND" -> _and(m)
      [] e.n = "OR" -> _or(m)
      [] e.n = "XOR" -> _xor(m)
      [] e.n = "LSHIFT" -> LSHIFT(m)
      [] e.n = "RSHIFT" -> RSHIFT(m)
      [] e.n = "INVERT" -> INVERT(m)
      [] e.n = "BEGIN" -> BEGIN(m)
      [] e.n = "AGAIN" -> AGAIN(m)
      [] e.n = "AHEAD" -> AHEAD(m)
      [] e.n = "IF" -> m_if(m)
      [] e.n = "THEN" -> m_then(m)
      [] e.n = "UNTIL" -> UNTIL(m)
      [] e.n = "DO" -> DO(m)
      [] e.n = "LOOP" -> LOOP(m)
      [] e.n = "+LOOP" -> plus_loop(m)
      [] e.n = "?DO" -> question_do(m)
      [] e.n = "I" -> I(m)
      [] e.n = "UNLOOP" -> UNLOOP(m)
      [] e.n = "LEAVE" -> LEAVE(m)
      [] e.n = "dodo" -> dodo(m)
      [] e.n = "qdodo" -> qdodo(m)
      [] e.n = "doloop" -> doloop(m)
      [] OTHER -> Err(m, "Unmodelled")

\* q(s), s given as its words; a word of s that a definition has rebound to
\* a colon definition is beyond the model
Q(m, ws) ==
    IF ~Ok(m) \/ ws = <<>> THEN m
    ELSE LET w == Head(ws)
         IN  IF QText(w) \in DOMAIN CurDict(m)
             THEN LET e == CurDict(m)[QText(w)]
                  IN  IF e.n \in Control THEN Err(m, "Unmodelled")
                      ELSE Run(Run(m, <<"call", e>>), <<"q", Tail(ws)>>)
             ELSE IF w = "0" THEN Run(lit(m, 0), <<"q", Tail(ws)>>)
             ELSE IF w = "1" THEN Run(lit(m, 1), <<"q", Tail(ws)>>)
             ELSE Err(m, "ValueError")

-----------------------------------------------------------------------------
(* Number recognition of interpret().                                      *)

\* the value r of consume1(c)
consume1_r(m, c) == /\ Last(m.d) # 0
                    /\ PyHas(m.ram, PyAt(m.d, -2))
                    /\ PyAt(m.ram, PyAt(m.d, -2)) = c

consume1(m, c) ==
    IF Last(m.d) # 0 /\ ~PyHas(m.ram, PyAt(m.d, -2)) THEN Err(m, "IndexError")
    ELSE IF consume1_r(m, c) THEN slash_string(lit(m, 1))
    ELSE m

da(m) ==
    Let(pops(two_dup(m)), LAMBDA m0 :
    Let(pops_s(two_dup(m)), LAMBDA was :
        IF ~Ok(m0) THEN m0
        ELSE IF Len(was) = 3 /\ was[1] = 39 /\ was[3] = 39
            THEN lit(lit(two_drop(m0), was[2]), 1)
        ELSE
    Let(two_swap(dlit(m0, 0)), LAMBDA m3 :
    Let(IF consume1_r(m3, 36) THEN 36
        ELSE IF consume1_r(m3, 35) THEN 35
        ELSE IF consume1_r(m3, 37) THEN 37 ELSE 0, LAMBDA prefix :
    Let(IF prefix = 0 THEN consume1(m3, 37) ELSE consume1(m3, prefix), LAMBDA m4 :
    Let(Then(Then(m4, LAMBDA x : consume1(x, 45)),
             LAMBDA x : to_number(x, prefix # 0,
                                  IF prefix = 36 THEN 16
                                  ELSE IF prefix = 35 THEN 10 ELSE 2)),
        LAMBDA m6 :
    Let(Then(m6, LAMBDA x : consume1(x, 46)), LAMBDA m7 :
    Let(Then(m7, pop), LAMBDA m8 :
    Let(IF ~Ok(m8) THEN m8
        ELSE IF Last(m7.d) # 0 THEN THROW(lit(m8, -13))
        ELSE DROP(m8), LAMBDA m9 :
        IF ~Ok(m9) THEN m9
        ELSE IF consume1_r(m6, 46)
            THEN lit(IF consume1_r(m4, 45) THEN Run(m9, <<"q", <<"DNEGATE">>>>)
                     ELSE m9, 2)
        ELSE Let(DROP(m9), LAMBDA m10 :
                 lit(IF consume1_r(m4, 45) THEN Then(m10, NEGATE) ELSE m10,
                     1)))))))))))

doubleAlso(m) == Then(da(m), DROP)

doubleAlso_comma(m) ==
    Let(da(m), LAMBDA m1 :
        Let(Then(m1, pop), LAMBDA m2 :
            IF ~Ok(m2) THEN m2
            ELSE IF Last(m1.d) = 2 THEN Then(Then(SWAP(m2), LITERAL), LITERAL)
            ELSE LITERAL(m2)))

-----------------------------------------------------------------------------
(* The Python call stack of the engine thread.  A frame is a method that   *)
(* has called another one and waits for it (main, REFILL, CATCH,           *)
(* EVALUATE), a loop between two of its iterations (interpret, inner), or  *)
(* ACCEPT blocked in cmdq.get().  x holds the frame's local variables; g   *)
(* holds, for CATCH, what an observer sees when CATCH is entered.          *)

Frame(k, x) == [k |-> k, x |-> x, g |-> <<>>]

push(m, f) == [m EXCEPT !.frames = Append(@, f)]

unframe(m) == [m EXCEPT !.frames = Front(@)]

\* no exception return of CATCH yet
NoCatch == [k |-> 0, n |-> 0, g |-> <<>>, thrown |-> <<>>, at |-> <<>>,
            d |-> <<>>, r |-> <<>>, ip |-> 0, src |-> <<>>]

\* the cells SOURCEA, SOURCEC and >IN
Source(m) == <<Cell(m.ram, SOURCEA_ADDR), Cell(m.ram, SOURCEC_ADDR),
               Cell(m.ram, TO_IN_ADDR)>>

\* an operation of the engine thread has run as far as mx; an exception in
\* flight is taken to its handler
Settle(mx) == IF Ok(mx) THEN mx ELSE Run(mx, <<"raise">>)

ACCEPT(m) ==
    IF Len(m.d) < 2 THEN Err(popn(m, 2), "ValueError")
    ELSE push([popn(m, 2) EXCEPT !.ready = TRUE,
                                 !.gets = Append(@, Len(m.frames))],
              Frame("ACCEPT", PyFrom(m.d, -2)))

REFILL(m) == ACCEPT(push(lit(tib(m), 256), Frame("REFILL", <<>>)))

EXECUTE(m) ==
    LET m1 == pop(m)
        x == Last(m.d)
    IN  IF ~Ok(m1) THEN m1
        ELSE IF ~PyHas(m1.xts, x - 1000) THEN Err(m1, "IndexError")
        ELSE Run(m1, <<"call", PyAt(m1.xts, x - 1000)>>)

CATCH(m) ==
    Let(Run(m, <<"q", <<"SOURCEA", "@", "SOURCEC", "@", ">IN", "@">>>>),
        LAMBDA m1 :
        IF ~Ok(m1) THEN m1
        ELSE LET m2 == popn(m1, 3)
                 f == [k |-> "CATCH",
                       x |-> <<Len(m2.d) - 1, Len(m2.r), m2.ip>> \o PyFrom(m1.d, -3),
                       g |-> <<Len(m.d) - 1, Len(m.r), m.ip>> \o Source(m)]
             IN  Let(EXECUTE(push(m2, f)), LAMBDA m4 :
                     IF Ok(m4) /\ Len(m4.frames) = Len(m2.frames) + 1
                     THEN lit(unframe(m4), 0)
                     ELSE m4))

\* EVALUATE that saves the address and the length of the source the other
\* way round
EVALUATE_swapped(m) ==
    Let(Run(m, <<"q", <<"SOURCE", "SWAP", ">R", ">R", ">IN", "@", ">R",
                         "SOURCEC", "!", "SOURCEA", "!", "0", ">IN", "!">>>>),
        LAMBDA m2 :
        IF ~Ok(m2) THEN m2
        ELSE push(push(m2, [Frame("EVALUATE", <<>>) EXCEPT
                                !.g = <<Len(m.r)>> \o Source(m)]),
                  Frame("interpret", <<>>)))

\* the frame of EVALUATE has no locals; g is history: the length of the
\* return stack and the source cells when EVALUATE was called
EVALUATE(m) ==
    Let(Run(m, <<"q", <<"SOURCE", ">R", ">R", ">IN", "@", ">R",
                         "SOURCEC", "!", "SOURCEA", "!", "0", ">IN", "!">>>>),
        LAMBDA m2 :
        IF ~Ok(m2) THEN m2
        ELSE push(push(m2, [Frame("EVALUATE", <<>>) EXCEPT
                                !.g = <<Len(m.r)>> \o Source(m)]),
                  Frame("interpret", <<>>)))

\* e()
Invoke(m, e) ==
    IF Len(e.args) # Arity(e.n) THEN Err(m, "TypeError")
    ELSE CASE e.n = "EXECUTE" -> EXECUTE(m)
           [] e.n = "CATCH" -> CATCH(m)
           [] e.n = "EVALUATE" -> EVALUATE(m)
           [] e.n = "REFILL" -> REFILL(m)
           [] e.n = "ACCEPT" -> ACCEPT(m)
           [] e.n = "interpret" -> push(m, Frame("interpret", <<>>))
           [] e.n = "inner" ->
                push([m EXCEPT !.ip = 0], Frame("inner", <<e.args[1], m.ip>>))
           [] OTHER -> Atomic(m, e)

\* the body of the main loop from the return of REFILL to the call of CATCH
main_refilled(m) ==
    LET m1 == pop(m)
        c == P("interpret")
        m2 == [m1 EXCEPT !.frames[1].x = <<1>>]
    IN  IF ~Ok(m1) THEN m1
        ELSE IF Last(m.d) = 0 THEN Err(m1, "AssertionError")
        ELSE CATCH(lit(xts_after(m2, c), xt(m2, c)))

\* the body of the main loop from the return of CATCH to the call of REFILL
main_caught(m) ==
    LET m1 == pop(m)
        e == Last(m.d)
        m2 == IF e # 0 THEN write(m1, "error", e) ELSE write(m1, "ok", 0)
    IN  IF ~Ok(m1) THEN m1
        ELSE REFILL([m2 EXCEPT !.frames[1].x = <<0>>])

\* the callee of the top frame has returned: the frame runs on to its next
\* call, or to its own return
Returned(m) ==
    LET f == Last(m.frames)
    IN  CASE f.k \in {"interpret", "inner"} -> m
          [] f.k = "CATCH" -> Run(lit(unframe(m), 0), <<"return">>)
          [] f.k = "EVALUATE" ->
                Let(Run(m, <<"q", <<"R>", ">IN", "!", "R>", "SOURCEA", "!",
                                    "R>", "SOURCEC", "!">>>>), LAMBDA m1 :
                    IF Ok(m1) THEN Run(unframe(m1), <<"return">>) ELSE m1)
          [] f.k = "REFILL" ->
                Let(Run(m, <<"q", <<"SOURCEC", "!", "TIB", "SOURCEA", "!",
                                    "0", ">IN", "!">>>>), LAMBDA m1 :
                    IF Ok(m1) THEN Run(lit(unframe(m1), -1), <<"return">>)
                    ELSE m1)
          [] f.k = "main" ->
                IF f.x = <<0>> THEN main_refilled(m) ELSE main_caught(m)

\* the index of the innermost CATCH frame, 0 when there is none
RECURSIVE Catcher(_, _)
Catcher(fs, i) == IF i = 0 THEN 0
                  ELSE IF fs[i].k = "CATCH" THEN i
                  ELSE Catcher(fs, i - 1)

\* handler without the zeros for a data stack shorter than the saved depth
handler_nopad(m, f, e) ==
    LET m1 == [m EXCEPT !.d = PyTo(m.d, f.x[1]), !.r = PyTo(m.r, f.x[2]),
                        !.ip = f.x[3]]
        m2 == lit(lit(lit(m1, f.x[4]), f.x[5]), f.x[6])
    IN  Then(Run(m2, <<"q", <<">IN", "!", "SOURCEC", "!", "SOURCEA", "!">>>>),
             LAMBDA x : lit(x, e))

\* handler that trims the stacks and leaves ip and the input source alone
handler_stacks(m, f, e) ==
    LET ds == f.x[1]
        d1 == IF Len(m.d) > ds THEN PyTo(m.d, ds)
              ELSE m.d \o Zeros(ds - Len(m.d))
    IN  lit([m EXCEPT !.d = d1, !.r = PyTo(m.r, f.x[2])], e)

\* the except clause of CATCH, in frame f, for ForthException(e)
handler(m, f, e) ==
    LET ds == f.x[1]
        d1 == IF Len(m.d) > ds THEN PyTo(m.d, ds)
              ELSE m.d \o Zeros(ds - Len(m.d))
        m1 == [m EXCEPT !.d = d1, !.r = PyTo(m.r, f.x[2]), !.ip = f.x[3]]
        m2 == lit(lit(lit(m1, f.x[4]), f.x[5]), f.x[6])
    IN  Then(Run(m2, <<"q", <<">IN", "!", "SOURCEC", "!", "SOURCEA", "!">>>>),
             LAMBDA x : lit(x, e))

\* an exception propagates up the call stack: a ForthException to the
\* innermost CATCH, which handles it and returns; any other exception, and
\* a ForthException outside CATCH, ends the thread
Raised(m) ==
    LET i == Catcher(m.frames, Len(m.frames))
    IN  IF m.exc.t # "ForthException" \/ i = 0 THEN [m EXCEPT !.frames = <<>>]
        ELSE Let(handler([m EXCEPT !.frames = SubSeq(@, 1, i - 1), !.exc = NoExc],
                         m.frames[i], m.exc.v), LAMBDA m2 :
                 IF ~Ok(m2) THEN Run(m2, <<"raise">>)
                 ELSE Settle(Run(
                        [m2 EXCEPT !.caught =
                            [k |-> m.caught.k + 1, n |-> m.exc.v,
                             g |-> m.frames[i].g, thrown |-> m.d,
                             at |-> <<Len(m.r), m.ip>> \o Source(m),
                             d |-> m2.d, r |-> m2.r, ip |-> m2.ip,
                             src |-> Source(m2)]],
                        <<"return">>)))

-----------------------------------------------------------------------------
(* The text of command lines.                                              *)

\* the bytes of the words that a command line of the model may hold besides
\* the names of Spell
Typed ==
    "0" :> <<48>> @@
    "9" :> <<57>> @@
    "Y" :> <<89>> @@
    "22" :> <<50, 50>> @@
    "1" :> <<49>> @@
    "2" :> <<50>> @@
    "5" :> <<53>> @@
    "7" :> <<55>> @@
    "1000" :> <<49, 48, 48, 48>> @@
    "1001" :> <<49, 48, 48, 49>> @@
    "1002" :> <<49, 48, 48, 50>> @@
    "-1" :> <<45, 49>> @@
    "$" :> <<36>> @@
    "$-" :> <<36, 45>> @@
    "%." :> <<37, 46>> @@
    "#" :> <<35>> @@
    "1." :> <<49, 46>> @@
    "-1." :> <<45, 49, 46>> @@
    "'A'" :> <<39, 65, 39>> @@
    "A" :> <<65>> @@
    "B" :> <<66>> @@
    "M" :> <<77>> @@
    "X" :> <<88>> @@
    "Q" :> <<81>> @@
    "65" :> <<54, 53>> @@
    "66" :> <<54, 54>> @@
    "260" :> <<50, 54, 48>> @@
    "264" :> <<50, 54, 52>> @@
    "272" :> <<50, 55, 50>> @@
    "276" :> <<50, 55, 54>> @@
    "STATE" :> <<83, 84, 65, 84, 69>> @@
    "BASE" :> <<66, 65, 83, 69>> @@
    ">IN" :> <<62, 73, 78>> @@
    "SOURCEA" :> <<83, 79, 85, 82, 67, 69, 65>> @@
    "SOURCEC" :> <<83, 79, 85, 82, 67, 69, 67>> @@
    "TIB" :> <<84, 73, 66>> @@
    "3" :> <<51>> @@
    "4" :> <<52>> @@
    "-5" :> <<45, 53>> @@
    "-2" :> <<45, 50>> @@
    "10" :> <<49, 48>> @@
    "2147483646" :> <<50, 49, 52, 55, 52, 56, 51, 54, 52, 54>> @@
    "2147483647" :> <<50, 49, 52, 55, 52, 56, 51, 54, 52, 55>> @@
    "-2147483647" :> <<45, 50, 49, 52, 55, 52, 56, 51, 54, 52, 55>> @@
    "6" :> <<54>> @@
    "8" :> <<56>> @@
    "256" :> <<50, 53, 54>> @@
    "300" :> <<51, 48, 48>> @@
    "31" :> <<51, 49>> @@
    "65536" :> <<54, 53, 53, 51, 54>> @@
    "280" :> <<50, 56, 48>> @@
    "281" :> <<50, 56, 49>> @@
    "282" :> <<50, 56, 50>> @@
    "283" :> <<50, 56, 51>> @@
    "$10" :> <<36, 49, 48>>

\* the bytes of one word of a line
Text(w) == IF w \in DOMAIN Spell THEN Spell[w] ELSE Typed[w]

\* " ".join(ws), as bytes
RECURSIVE Line(_)
Line(ws) == IF ws = <<>> THEN <<>>
            ELSE IF Len(ws) = 1 THEN Text(ws[1])
            ELSE Text(ws[1]) \o <<32>> \o Line(Tail(ws))

\* the concatenation of a sequence of sequences
RECURSIVE Flat(_)
Flat(ss) == IF ss = <<>> THEN <<>> ELSE Head(ss) \o Flat(Tail(ss))

\* the lines made of 1..n phrases of V
LinesOf(V, n) == {Line(Flat(ps)) : ps \in UNION {[1..k -> V] : k \in 1..n}}

-----------------------------------------------------------------------------
(* Construction.                                                           *)

\* SwapForth.__init__ up to the allot() calls
Blank ==
    [d |-> <<>>, r |-> <<>>, ip |-> 0, loopC |-> 0, loopL |-> 0,
     leaves |-> <<>>, ram |-> Zeros(STATE_ADDR + 4), out |-> 0, dict |-> 1,
     dicts |-> <<InitDict>>, snaps |-> <<InitDict>>, xts |-> <<>>, code |-> 0, codes |-> <<>>,
     defining |-> <<>>, lastword |-> None, dosemi |-> "", imm |-> {},
     nobj |-> 6, frames |-> <<>>, exc |-> NoExc, ready |-> FALSE,
     gets |-> <<>>, log |-> <<>>, caught |-> NoCatch, restores |-> 0,
     loops |-> [open |-> <<>>, k |-> 0, was |-> <<>>, now |-> <<>>]]

\* AsyncSwapForth.__init__ up to the first cmdq.get(), where
\* Tethered.__init__ returns
Boot == REFILL(push(DECIMAL(Blank), Frame("main", <<0>>)))

Set(m) ==
    /\ d' = m.d /\ r' = m.r /\ ip' = m.ip
    /\ loopC' = m.loopC /\ loopL' = m.loopL /\ leaves' = m.leaves
    /\ ram' = m.ram /\ out' = m.out
    /\ dict' = m.dict /\ dicts' = m.dicts /\ snaps' = m.snaps /\ xts' = m.xts
    /\ code' = m.code /\ codes' = m.codes /\ defining' = m.defining
    /\ lastword' = m.lastword /\ dosemi' = m.dosemi
    /\ imm' = m.imm /\ nobj' = m.nobj
    /\ frames' = m.frames /\ exc' = m.exc /\ ready' = m.ready
    /\ gets' = m.gets /\ log' = m.log /\ caught' = m.caught
    /\ restores' = m.restores /\ loops' = m.loops

Init ==
    /\ d = Boot.d /\ r = Boot.r /\ ip = Boot.ip
    /\ loopC = Boot.loopC /\ loopL = Boot.loopL /\ leaves = Boot.leaves
    /\ ram = Boot.ram /\ out = Boot.out
    /\ dict = Boot.dict /\ dicts = Boot.dicts /\ snaps = Boot.snaps
    /\ xts = Boot.xts
    /\ code = Boot.code /\ codes = Boot.codes /\ defining = Boot.defining
    /\ lastword = Boot.lastword /\ dosemi = Boot.dosemi
    /\ imm = Boot.imm /\ nobj = Boot.nobj
    /\ frames = Boot.frames /\ exc = Boot.exc /\ ready = Boot.ready
    /\ gets = Boot.gets /\ log = Boot.log /\ caught = Boot.caught
    /\ restores = Boot.restores /\ loops = Boot.loops
    /\ cmdq = <<>> /\ host = "idle" /\ issued = <<>>

-----------------------------------------------------------------------------
(* The host thread.                                                        *)

\* Tethered.issue(writer, cmd) up to ready.wait(); the writer of the k-th
\* command is named k
issue(cmd) ==
    /\ host = "idle"
    /\ issued' = Append(issued, cmd)
    /\ IF ready
       THEN /\ host' = "waiting"
            /\ cmdq' = Append(cmdq, <<Len(issued) + 1, cmd>>)
            /\ Set([Self EXCEPT !.ready = FALSE])
       ELSE /\ host' = "AssertionError"
            /\ cmdq' = cmdq
            /\ Set(Self)

\* ready.wait() returns, and issue() with it
issue_return ==
    /\ host = "waiting"
    /\ ready
    /\ host' = "idle"
    /\ Set(Self)
    /\ UNCHANGED <<cmdq, issued>>

-----------------------------------------------------------------------------
(* The engine thread.                                                      *)

\* ACCEPT from the return of cmdq.get() with got
accepted(m, got) ==
    LET a == Last(m.frames).x[1]
        n == Last(m.frames).x[2]
        item == PySlice(got, 0, n)
        s == item[2]
        m1 == [m EXCEPT !.out = item[1],
                        !.ram = PySetSlice(@, a, a + Len(s), s)]
    IN  IF Len(item) # 2 THEN Err(m, "ValueError") ELSE lit(m1, Len(s))

\* cmdq.get() returns in ACCEPT; ACCEPT runs to its end, and its callers
\* run on
AcceptGet ==
    /\ frames # <<>>
    /\ Last(frames).k = "ACCEPT"
    /\ cmdq # <<>>
    /\ Set(Run(Self, <<"get", Head(cmdq)>>))
    /\ cmdq' = Tail(cmdq)
    /\ UNCHANGED <<host, issued>>

\* the callables that interpret() chooses from
Table == <<"EXECUTE", "doubleAlso", "EXECUTE",
           "compile_comma", "doubleAlso_comma", "EXECUTE">>

\* one iteration of the loop of interpret(), or its exit
interpret(m) ==
    Let(Run(m, <<"parse_name">>), LAMBDA m1 :
        IF ~Ok(m1) THEN m1
        ELSE IF Last(m1.d) = 0 THEN Run(unframe(two_drop(m1)), <<"return">>)
        ELSE
    Let(SFIND(m1), LAMBDA m2 :
    Let(Then(Then(Then(m2, pop), state), fetch), LAMBDA m3f :
    Let(Then(m3f, pop), LAMBDA m4 :
        IF ~Ok(m4) THEN m4
        ELSE LET i == Last(m2.d) + 1 + 3 * Last(m3f.d)
             IN  IF ~PyHas(Table, i) THEN Err(m4, "IndexError")
                 ELSE CASE PyAt(Table, i) = "EXECUTE" -> EXECUTE(m4)
                        [] PyAt(Table, i) = "compile_comma" -> compile_comma(m4)
                        [] PyAt(Table, i) = "doubleAlso" -> doubleAlso(m4)
                        [] PyAt(Table, i) = "doubleAlso_comma" ->
                                doubleAlso_comma(m4)))))

InterpretStep ==
    /\ frames # <<>>
    /\ Last(frames).k = "interpret"
    /\ Len(frames) <= MaxFrames
    /\ Set(Run(Self, <<"interpret">>))
    /\ UNCHANGED <<cmdq, host, issued>>

\* one iteration of the loop of inner(code), or its exit
inner(m) ==
    LET f == Last(m.frames)
        c == m.codes[f.x[1]]
    IN  IF m.ip < Len(c)
        THEN IF ~PyHas(c, m.ip) THEN Err(m, "IndexError")
             ELSE Run([m EXCEPT !.ip = @ + 1], <<"call", PyAt(c, m.ip)>>)
        ELSE Run(unframe([m EXCEPT !.ip = f.x[2]]), <<"return">>)

InnerStep ==
    /\ frames # <<>>
    /\ Last(frames).k = "inner"
    /\ Len(frames) <= MaxFrames
    /\ Set(Run(Self, <<"inner">>))
    /\ UNCHANGED <<cmdq, host, issued>>

\* the call c on the engine m; a step of the engine thread runs until the
\* thread is in its next frame or has ended
Run(m, c) ==
    CASE c[1] = "q" -> Q(m, c[2])
      [] c[1] = "parse_name" -> parse_name(m)
      [] c[1] = "call" -> Invoke(m, c[2])
      [] c[1] = "return" -> Returned(m)
      [] c[1] = "raise" -> Raised(m)
      [] c[1] = "get" ->
            Settle(Then(accepted(m, c[2]),
                        LAMBDA x : Run(unframe(x), <<"return">>)))
      [] c[1] = "interpret" -> Settle(interpret(m))
      [] c[1] = "inner" -> Settle(inner(m))

-----------------------------------------------------------------------------
(* Sessions that exercise CATCH.  xt 1000 is interpret, the first xt the   *)
(* main loop makes: 1000 CATCH runs the rest of the line under a nested    *)
(* CATCH.                                                                  *)

\* SOURCE >IN @ 22 + /STRING EVALUATE evaluates what follows it on the line
CatchVocab ==
    {<<":", "A", "1000", "CATCH", ";", ":", "B", "1", "5", "THROW", ";">>,
     <<"A">>, <<"B">>,
     <<"1000", "CATCH">>,
     <<"1000", "CATCH", "SOURCE", ">IN", "@", "22", "+", "/STRING", "EVALUATE">>,
     <<"SOURCE", ">IN", "@", "22", "+", "/STRING", "EVALUATE">>,
     <<"7">>, <<"7", "THROW">>, <<"THROW">>,
     <<"1", ">R">>, <<"R>", "THROW">>,
     <<"DROP">>}

NextCatch ==
    \/ /\ Len(issued) < CatchCommands
       /\ \E c \in LinesOf(CatchVocab, CatchPhrases) : issue(c)
    \/ issue_return
    \/ AcceptGet
    \/ InterpretStep
    \/ InnerStep

SpecCatch == Init /\ [][NextCatch]_vars

\* C1: when CATCH returns with a thrown code n, the data stack holds the
\* cells that were below the xt when CATCH was entered and that the xt left
\* in place, zeros in the positions it consumed, and n on top: its depth is
\* the depth before CATCH without the xt, plus one
C1_CatchDataStack ==
    caught.k > 0 =>
        /\ Len(caught.d) = caught.g[1] + 1
        /\ Last(caught.d) = caught.n
        /\ caught.n # 0
        /\ \A i \in 1..caught.g[1] :
              caught.d[i] = IF i <= Len(caught.thrown) THEN caught.thrown[i]
                            ELSE 0

\* a throw caught with the data stack below the depth saved by CATCH
C1_Padded == caught.k > 0 /\ Len(caught.thrown) < caught.g[1]

\* C2: when CATCH returns with a thrown code, the return stack is as long as
\* it was when CATCH was entered
C2_ReturnStackRestored == caught.k > 0 => Len(caught.r) = caught.g[2]

\* C3: when CATCH returns with a thrown code, SOURCEA, SOURCEC, >IN and ip
\* hold the values they had when CATCH was entered
C3_SourceAndIpRestored ==
    caught.k > 0 =>
        /\ caught.src = <<caught.g[4], caught.g[5], caught.g[6]>>
        /\ caught.ip = caught.g[3]

\* a throw caught from inside an EVALUATE that the xt ran: the input source
\* at the throw is not the one at the entry of CATCH
C3_ThrownInEvaluate ==
    /\ caught.k > 0
    /\ caught.at[3] # caught.g[4]
    /\ caught.at[4] # caught.g[5]

\* C4: a word run on a data stack shorter than what it consumes throws -4;
\* it does not end the engine thread with an IndexError
C4_UnderflowThrows == ~(frames = <<>> /\ exc.t = "IndexError")

-----------------------------------------------------------------------------
(* Sessions that exercise the handshake of Tethered.issue and the engine.  *)

ShellVocab ==
    {<<"65", "EMIT">>, <<"7", "THROW">>, <<"Q">>,
     <<"DROP">>, <<"1", "0", "0", "UM/MOD">>,
     <<"REFILL">>, <<"0", "9", "ACCEPT">>}

NextShell ==
    \/ /\ Len(issued) < ShellCommands
       /\ \E c \in LinesOf(ShellVocab, ShellPhrases) : issue(c)
    \/ issue_return
    \/ AcceptGet
    \/ InterpretStep

SpecShell == Init /\ [][NextShell]_vars

\* the engine is blocked in the cmdq.get() of the main loop's REFILL
Parked == /\ Len(frames) = 3
          /\ frames[1].k = "main" /\ frames[2].k = "REFILL"
          /\ frames[3].k = "ACCEPT"

\* the banners written while the main loop was running command k
Banners(k) == {i \in 1..Len(log) : log[i].cmd = k /\ log[i].s \in {"ok", "error"}}

\* C5: whatever error a line raises, the engine thread lives on
C5_ErrorNeverEndsEngine == frames # <<>>

\* issue() has returned only when the engine has run the command to its end
\* and written its banner
IssueReturnsAfterBanner ==
    (host = "idle" /\ issued # <<>>) =>
        (Parked /\ Cardinality(Banners(Len(issued))) = 1)

\* ready is set only while the engine waits for the next command, with no
\* command in progress
ReadyOnlyParked == ready => Parked

\* every output made while a command runs goes to the writer issued with it
OutputToOwnWriter == \A i \in 1..Len(log) : log[i].w = log[i].cmd

\* every cmdq.get() so far was called by the REFILL of the main loop
NoNestedGet == \A k \in 1..Len(gets) : gets[k] = 2

\* C6 as stated: the handshake holds for every command, also for one whose
\* words call REFILL or ACCEPT
C6_Handshake == IssueReturnsAfterBanner /\ ReadyOnlyParked /\ OutputToOwnWriter

\* as long as no word of a command has called REFILL or ACCEPT, the three
\* parts of the handshake do hold
HandshakeNoNestedGet ==
    NoNestedGet => (IssueReturnsAfterBanner /\ ReadyOnlyParked /\ OutputToOwnWriter)

\* two commands have run to their banners, each with output of its own
TwoCommandsDone ==
    /\ NoNestedGet
    /\ host = "idle"
    /\ Len(issued) = 2
    /\ \E i, j \in 1..Len(log) : /\ log[i].s = "char" /\ log[i].w = 1
                                 /\ log[j].s = "char" /\ log[j].w = 2

-----------------------------------------------------------------------------
(* What the outer interpreter is about to do.                              *)

\* interpret() is between two iterations of its loop and is allowed a step
AtInterpret == /\ frames # <<>>
               /\ Last(frames).k = "interpret"
               /\ Len(frames) <= MaxFrames

\* the engine after the parse_name() of the next iteration
Ahead == parse_name(Self)

\* the token that the next iteration parses, as SFIND looks it up
Token == upper(pops_s(Ahead))

\* the token after that one
Token2 == upper(pops_s(parse_name(pops(Ahead))))

\* the next iteration parses a token (the line is not at its end)
TokenAhead == AtInterpret /\ Ok(Ahead) /\ Last(Ahead.d) # 0

\* the cell STATE
StateCell == Cell(ram, STATE_ADDR)

-----------------------------------------------------------------------------
(* Sessions that compile definitions with POSTPONE.                        *)

PostponeVocab ==
    {<<":", "X", ";">>, <<":", "X", ";", "IMMEDIATE">>,
     <<":", "Y">>, <<";">>,
     <<"POSTPONE", "X">>, <<"POSTPONE", "DUP">>, <<"POSTPONE", ";">>,
     <<"X">>}

NextPostpone ==
    \/ /\ Len(issued) < PostponeCommands
       /\ \E c \in LinesOf(PostponeVocab, PostponePhrases) : issue(c)
    \/ issue_return
    \/ AcceptGet
    \/ InterpretStep
    \/ InnerStep

SpecPostpone == Init /\ [][NextPostpone]_vars

\* the next iteration of interpret() runs POSTPONE on a word of the
\* dictionary while a definition is being compiled
PostponeAhead ==
    /\ TokenAhead
    /\ Token = Spell["POSTPONE"]
    /\ Token \in DOMAIN dicts[dict]
    /\ dicts[dict][Token] = P("POSTPONE")
    /\ StateCell = 1
    /\ code # 0
    /\ Token2 \in DOMAIN dicts[dict]

\* the current definition has grown by exactly the entry e
GrownByEntry(e) == codes'[code] = Append(codes[code], e)

\* the current definition has grown by exactly a literal pusher that carries
\* an xt of e, and COMPILE,
GrownByCompiler(e) ==
    /\ Len(codes'[code]) = Len(codes[code]) + 2
    /\ SubSeq(codes'[code], 1, Len(codes[code])) = codes[code]
    /\ LET l == codes'[code][Len(codes[code]) + 1]
       IN  /\ l.n = "lit"
           /\ PyHas(xts', l.args[1] - 1000)
           /\ PyAt(xts', l.args[1] - 1000) = e
    /\ Last(codes'[code]) = P("COMPILE,")

\* C7 as stated: POSTPONE w appends a literal pusher with w's xt and
\* COMPILE, when w is immediate, and w's own entry when w is not
C7_PostponeAsStated ==
    [][PostponeAhead =>
        IF is_immediate(Self, dicts[dict][Token2])
        THEN GrownByCompiler(dicts[dict][Token2])
        ELSE GrownByEntry(dicts[dict][Token2])]_vars

\* C7: POSTPONE w appends w's own entry to the definition being compiled
\* when w is immediate, and a literal pusher with w's xt followed by
\* COMPILE, when w is not immediate
C7_PostponeAsCoded ==
    [][PostponeAhead =>
        IF is_immediate(Self, dicts[dict][Token2])
        THEN GrownByEntry(dicts[dict][Token2])
        ELSE GrownByCompiler(dicts[dict][Token2])]_vars

\* a definition holds what POSTPONE made of a non-immediate word, and one
\* holds an immediate word that POSTPONE put there
C7_BothPostponed ==
    /\ \E c \in 1..Len(codes) : \E i \in 1..(Len(codes[c]) - 1) :
          /\ codes[c][i].n = "lit"
          /\ codes[c][i + 1] = P("COMPILE,")
    /\ \E c \in 1..Len(codes) : \E i \in 1..Len(codes[c]) :
          is_immediate(Self, codes[c][i])

-----------------------------------------------------------------------------
(* Sessions that exercise the dispatch of interpret() on words, numbers    *)
(* and other tokens, in the states 0, 1 and 2.                             *)

DispatchVocab ==
    {<<":", "Y">>, <<";">>, <<"Y">>, <<"DUP">>,
     <<"[", "2", "STATE", "!">>,
     <<"1">>, <<"1.">>, <<"$">>, <<"Q">>}

NextDispatch ==
    \/ /\ Len(issued) < DispatchCommands
       /\ \E c \in LinesOf(DispatchVocab, DispatchPhrases) : issue(c)
    \/ issue_return
    \/ AcceptGet
    \/ InterpretStep
    \/ InnerStep

SpecDispatch == Init /\ [][NextDispatch]_vars

\* the next iteration of interpret() parses the text t, which names no word
UnknownAhead(t) == TokenAhead /\ Token = t /\ Token \notin DOMAIN dicts[dict]

\* the next iteration of interpret() parses the name of a word that is not
\* immediate
WordAhead == /\ TokenAhead
             /\ Token \in DOMAIN dicts[dict]
             /\ ~is_immediate(Self, dicts[dict][Token])

\* C8: with STATE = 0 a number is pushed; with any other value of STATE a
\* non-immediate word is appended to the current definition and a number is
\* compiled as one literal pusher, a double number as two, the low cell first
C8_DispatchByState ==
    [][/\ (UnknownAhead(<<49>>) /\ StateCell = 0) => d' = Append(d, 1)
       /\ (UnknownAhead(<<49>>) /\ StateCell # 0 /\ code # 0) =>
              GrownByEntry(Partial("lit", <<1>>, 0))
       /\ (UnknownAhead(<<49, 46>>) /\ StateCell # 0 /\ code # 0) =>
              codes'[code] = codes[code] \o <<Partial("lit", <<1>>, 0),
                                              Partial("lit", <<0>>, 0)>>
       /\ (WordAhead /\ StateCell # 0 /\ code # 0) =>
              GrownByEntry(dicts[dict][Token])]_vars

\* the text t is a number in base b: an optional prefix $ # or %, an
\* optional -, one or more digits of the base that the prefix names (b
\* without a prefix), an optional final dot; or a character between quotes
IsNumber(t, b) ==
    \/ Len(t) = 3 /\ t[1] = 39 /\ t[3] = 39
    \/ LET p == IF t # <<>> /\ t[1] \in {36, 35, 37} THEN 1 ELSE 0
           eb == IF p = 0 THEN b
                 ELSE IF t[1] = 36 THEN 16 ELSE IF t[1] = 35 THEN 10 ELSE 2
           q == IF Len(t) > p /\ t[p + 1] = 45 THEN p + 1 ELSE p
           e == IF Len(t) > q /\ t[Len(t)] = 46 THEN Len(t) - 1 ELSE Len(t)
       IN  /\ q < e
           /\ \A i \in (q + 1)..e :
                 \/ 48 <= t[i] /\ t[i] <= 57 /\ t[i] - 48 < eb
                 \/ 65 <= t[i] /\ t[i] <= 90 /\ t[i] - 55 < eb
                 \/ 97 <= t[i] /\ t[i] <= 122 /\ t[i] - 87 < eb

\* C9: in the states 0 and 1, a token that names no word and is no number
\* is thrown as -13: the next return of CATCH is one with -13, and nothing
\* is compiled for the token
C9_UnknownTokenThrows ==
    [][(/\ TokenAhead
        /\ Token \notin DOMAIN dicts[dict]
        /\ ~IsNumber(pops_s(Ahead), Cell(ram, BASE_ADDR))
        /\ StateCell \in {0, 1})
       => (caught'.k = caught.k + 1 /\ caught'.n = -13 /\ codes' = codes)]_vars

-----------------------------------------------------------------------------
(* Sessions that make markers and run them, by name and through an xt kept *)
(* on the stack.                                                           *)

MarkerVocab ==
    {<<"MARKER", "M">>,
     <<"MARKER", "M", "PARSE-NAME", "M", "SFIND", "DROP">>,
     <<"M">>, <<"EXECUTE">>,
     <<":", "X", ";">>, <<"X">>, <<"1", ",">>}

NextMarker ==
    \/ /\ Len(issued) < MarkerCommands
       /\ \E c \in LinesOf(MarkerVocab, MarkerPhrases) : issue(c)
    \/ issue_return
    \/ AcceptGet
    \/ InterpretStep
    \/ InnerStep

SpecMarker == Init /\ [][NextMarker]_vars

\* the marker words that the next iteration of interpret() runs: the word
\* that the token names, or for EXECUTE the word of the xt on the stack
MarkersAhead ==
    IF ~(TokenAhead /\ StateCell = 0 /\ Token \in DOMAIN dicts[dict]) THEN {}
    ELSE IF dicts[dict][Token].n = "restore" THEN {dicts[dict][Token]}
    ELSE IF /\ dicts[dict][Token] = P("EXECUTE")
            /\ d # <<>>
            /\ PyHas(xts, Last(d) - 1000)
            /\ PyAt(xts, Last(d) - 1000).n = "restore"
         THEN {PyAt(xts, Last(d) - 1000)}
    ELSE {}

\* C10: every execution of a marker word, by name or through its xt, makes
\* HERE what it was when the marker was made and the dictionary what it was
\* just before
C10_MarkerRestores ==
    [][\A e \in MarkersAhead :
          /\ Len(ram') = e.args[1]
          /\ dicts'[dict'] = snaps[e.args[2]]]_vars

-----------------------------------------------------------------------------
(* Sessions that allot memory and store into it.                           *)

\* the sequence s ends with t
Ends(s, t) == Len(s) >= Len(t) /\ SubSeq(s, Len(s) - Len(t) + 1, Len(s)) = t

\* the words ws are the last ones that interpret() has parsed and run: the
\* text of the line up to >IN ends with them
JustRan(ws) ==
    /\ AtInterpret
    /\ Cell(ram, SOURCEA_ADDR) = TIB_ADDR
    /\ LET n == Cell(ram, TO_IN_ADDR)
           l == Line(ws)
       IN  /\ n <= Cell(ram, SOURCEC_ADDR)
           /\ \/ /\ n >= Len(l)
                 /\ SubSeq(ram, n - Len(l) + 1, n) = l
                 /\ n = Cell(ram, SOURCEC_ADDR)
              \/ /\ n > Len(l)
                 /\ SubSeq(ram, n - Len(l), n) = l \o <<32>>

HereVocab ==
    {<<"4", "ALLOT">>, <<"-1", "ALLOT">>, <<"7", ",">>, <<"7", "C,">>,
     <<"7", "HERE", "!">>, <<"7", "-1", "!">>, <<"7", "-1", "C!">>,
     <<":", "Y", "7", ";">>, <<"MARKER", "M">>, <<"M">>}

NextHere ==
    \/ /\ Len(issued) < HereCommands
       /\ \E c \in LinesOf(HereVocab, HerePhrases) : issue(c)
    \/ issue_return
    \/ AcceptGet
    \/ InterpretStep

SpecHere == Init /\ [][NextHere]_vars

\* C11: from one operation to the next the value of HERE (the length of
\* the memory) never decreases, except in an operation that runs the
\* restore of a word made by MARKER
C11_HereNeverDecreases ==
    [][Len(ram') >= Len(ram) \/ restores' # restores]_vars

\* ALLOT has run with a negative number after memory had been allotted, and
\* no marker has run
C11_NegativeAllot ==
    /\ JustRan(<<"-1", "ALLOT">>)
    /\ restores = 0
    /\ Len(ram) > STATE_ADDR + 4

-----------------------------------------------------------------------------
(* What the inner interpreter is about to do.                              *)

\* inner() is between two iterations of its loop, is allowed a step and has
\* a cell left to call
InnerAhead ==
    /\ frames # <<>>
    /\ Last(frames).k = "inner"
    /\ Len(frames) <= MaxFrames
    /\ 0 <= ip /\ ip < Len(codes[Last(frames).x[1]])

\* the cell that the next iteration of inner() calls
CellAhead == PyAt(codes[Last(frames).x[1]], ip)

-----------------------------------------------------------------------------
(* Sessions that run DO ... +LOOP with a constant increment.               *)

\* limit, start and increment
PlusLoopCases ==
    {<<"-5", "5", "-1">>, <<"3", "0", "1">>, <<"3", "0", "2">>,
     <<"0", "3", "-2">>, <<"-2147483647", "2147483646", "1">>,
     <<"2147483646", "-2147483647", "-1">>,
     <<"0", "0", "2147483647">>, <<"0", "0", "-2147483647">>}

PlusLoopVocab ==
    {<<":", "Y", c[1], c[2], "DO", "I", c[3], "+LOOP", "9", ";", "Y">> :
        c \in PlusLoopCases}

NextPlusLoop ==
    \/ /\ Len(issued) < PlusLoopCommands
       /\ \E c \in LinesOf(PlusLoopVocab, PlusLoopPhrases) : issue(c)
    \/ issue_return
    \/ AcceptGet
    \/ InterpretStep
    \/ InnerStep

\* the engine thread can take a step: cmdq.get() can return, or the thread
\* is in the loop of interpret() or of inner()
EngineRunnable ==
    /\ frames # <<>>
    /\ \/ Last(frames).k = "ACCEPT" /\ cmdq # <<>>
       \/ Last(frames).k \in {"interpret", "inner"} /\ Len(frames) <= MaxFrames

\* a step of the engine thread
EngineStep == AcceptGet \/ InterpretStep \/ InnerStep

\* The engine thread is a thread of its own (threading.Thread(target =
\* self.quit)): it runs whenever it can.  EngineFair is WF_vars(EngineStep)
\* written out, with EngineRunnable for ENABLED <<EngineStep>>_vars.
EngineFair == []<>(~EngineRunnable) \/ []<><<EngineStep>>_vars

SpecPlusLoop ==
    /\ Init /\ [][NextPlusLoop]_vars
    /\ WF_vars(InnerStep)
    /\ EngineFair

\* the test of +LOOP as C12 states it, for the increment inc and the index
\* before (c0) and after (c1) the update
PlusLoopTest(inc, c0, c1, limit) ==
    LET b == WrapSub(c0, limit) < 0
        a == WrapSub(c1, limit) < 0
    IN  IF inc > 0 THEN b /\ ~a ELSE ~b /\ a

\* C12: every update of a DO ... inc +LOOP adds inc to the index with
\* wrap-around and reports the end exactly when the stated test holds (for
\* inc > 0: index - limit negative before and not after; for inc < 0: not
\* negative before and negative after); a loop that has started comes to
\* its end; and with limit -5, start 5 and inc -1 the body runs for I = 5
\* down to -5
C12_PlusLoopTerminates ==
    /\ [][(InnerAhead /\ CellAhead = P("doloop") /\ d # <<>>) =>
            /\ loopC' = WrapAdd(loopC, Last(d))
            /\ loopL' = loopL
            /\ Len(d') = Len(d)
            /\ (Last(d') # 0) <=> PlusLoopTest(Last(d), loopC, loopC', loopL)]_vars
    /\ (loops.open # <<>>) ~> (loops.open = <<>> /\ loops.k > 0)
    /\ [](JustRan(<<":", "Y", "-5", "5", "DO", "I", "-1", "+LOOP", "9", ";", "Y">>)
            => Ends(d, <<5, 4, 3, 2, 1, 0, -1, -2, -3, -4, -5, 9>>))

\* a loop has ended whose index went past the largest cell to the smallest
C12_WrappedLoopDone ==
    /\ loops.k = 1 /\ loops.open = <<>>
    /\ Len(d) >= 3 /\ d[2] = MaxCell /\ d[3] = MinCell

-----------------------------------------------------------------------------
(* Counted loops with LOOP.                                                *)

DoCommands == 1
DoPhrases == 1

\* the decimal text of the numbers that the lines of the loops hold
Dec ==
    0 :> "0" @@ 1 :> "1" @@ 3 :> "3" @@ 5 :> "5" @@ 10 :> "10" @@
    -1 :> "-1" @@ -2 :> "-2" @@ -5 :> "-5" @@
    31 :> "31" @@ 65536 :> "65536" @@
    2147483646 :> "2147483646" @@ 2147483647 :> "2147483647" @@
    -2147483647 :> "-2147483647"

\* <<limit, start>> with start < limit, and with start = limit
DoCases ==
    {<<10, 0>>, <<3, 0>>, <<1, 0>>, <<0, -2>>, <<5, -5>>, <<-2, -5>>,
     <<MaxCell, 2147483646>>}
DoEqual == {<<0, 0>>, <<3, 3>>, <<-5, -5>>, <<MaxCell, MaxCell>>}

\* : Y 7 limit start DO I LOOP 9 ; Y   with DO or ?DO for do
DoLine(c, do) ==
    <<":", "Y", "7", Dec[c[1]], Dec[c[2]], do, "I", "LOOP", "9", ";", "Y">>

DoVocab ==
    {DoLine(c, "DO") : c \in DoCases} \cup
    {DoLine(c, "?DO") : c \in DoCases \cup DoEqual}

NextDo ==
    \/ \E c \in LinesOf(DoVocab, DoPhrases) :
            Len(issued) < DoCommands /\ issue(c)
    \/ issue_return
    \/ AcceptGet
    \/ InterpretStep
    \/ InnerStep

SpecDo == Init /\ [][NextDo]_vars

\* start, start + 1, ..., limit - 1
Upto(c) == [i \in 1..(c[1] - c[2]) |-> c[2] + (i - 1)]

\* C13: limit start DO I LOOP, and ?DO for DO, pushes start, start + 1, ...,
\* limit - 1 in this order and nothing else, and goes on after the loop; ?DO
\* with start = limit consumes both and pushes nothing
C13_LoopPushesRange ==
    /\ \A c \in DoCases : \A do \in {"DO", "?DO"} :
            JustRan(DoLine(c, do)) => Ends(d, <<7>> \o Upto(c) \o <<9>>)
    /\ \A c \in DoEqual :
            JustRan(DoLine(c, "?DO")) => Ends(d, <<7, 9>>)

\* ?DO with start = limit has skipped its body and the loop has been left
C13_SkippedBody ==
    JustRan(DoLine(<<3, 3>>, "?DO")) /\ d = <<7, 9>> /\ loops.k = 1

-----------------------------------------------------------------------------
(* Execution tokens.                                                       *)

XtCommands == 1
XtPhrases == 4

\* Y is defined and its token is left on the stack; Y is defined anew; a
\* marker is set and is run; a token is executed; a nameless definition
\* leaves its token
XtVocab ==
    {<<":", "Y", "7", ";", "PARSE-NAME", "Y", "SFIND", "DROP">>,
     <<":", "Y", "9", ";">>,
     <<"MARKER", "M">>, <<"M">>,
     <<"EXECUTE">>,
     <<":NONAME", "5", ";">>,
     <<"Y">>}

NextXt ==
    \/ \E c \in LinesOf(XtVocab, XtPhrases) :
            Len(issued) < XtCommands /\ issue(c)
    \/ issue_return
    \/ AcceptGet
    \/ InterpretStep
    \/ InnerStep

SpecXt == Init /\ [][NextXt]_vars

\* the names that a line of XtVocab can look up
XtNames == UNION {{Text(p[i]) : i \in 1..Len(p)} : p \in XtVocab}

\* the executable entries that these sessions can ask the token of: those
\* that a line can name and those that have a token
Entries == {CurDict(Self)[k] : k \in DOMAIN CurDict(Self) \cap XtNames} \cup
           {xts[i] : i \in 1..Len(xts)}

\* the token that EXECUTE resolves to the entry e, if any
Denotes(t, e) == PyHas(xts, t - 1000) /\ t >= 1000 /\ PyAt(xts, t - 1000) = e

-----------------------------------------------------------------------------
(* Arithmetic on cells.                                                    *)

ArithCommands == 1
ArithPhrases == 1

\* the operands that the lines type; the smallest cell has no text that
\* to_number takes, it is computed as -2147483647 1 -
Operands == {0, 1, -1, 5, 31, 65536, MaxCell, -2147483647}
ShiftCounts == {0, 1, 5, 31}
BinaryWords == {"+", "-", "*", "AND", "OR", "XOR"}
ShiftWords == {"LSHIFT", "RSHIFT"}
UnaryWords == {"NEGATE", "INVERT"}
Smallest == <<"-2147483647", "1", "-">>

ArithVocab ==
    {<<Dec[a], Dec[b], w>> : a \in Operands, b \in Operands, w \in BinaryWords}
    \cup {<<Dec[a], Dec[n], w>> : a \in Operands, n \in ShiftCounts, w \in ShiftWords}
    \cup {<<Dec[a], w>> : a \in Operands, w \in UnaryWords}
    \cup {Smallest \o <<Dec[b], w>> : b \in Operands, w \in BinaryWords}
    \cup {Smallest \o <<Dec[n], w>> : n \in ShiftCounts, w \in ShiftWords}
    \cup {Smallest \o <<w>> : w \in UnaryWords}
    \cup {<<Dec[a]>> \o Smallest \o <<w>> : a \in Operands, w \in BinaryWords}
    \cup {Smallest \o Smallest \o <<w>> : w \in BinaryWords}
    \cup {<<"0", "1", "-", "1", "+">>,
          <<"1", "31", "LSHIFT", "1", "31", "LSHIFT", "+">>}

NextArith ==
    \/ \E c \in LinesOf(ArithVocab, ArithPhrases) :
            Len(issued) < ArithCommands /\ issue(c)
    \/ issue_return
    \/ AcceptGet
    \/ InterpretStep

SpecArith == Init /\ [][NextArith]_vars

\* The cell congruent to x + y modulo 2^32, by halves of 16 bits: x is
\* High(x) * 65536 + Low(x)
Low(x) == x % 65536
High(x) == (x - Low(x)) \div 65536
SumMod(x, y) ==
    LET l == Low(x) + Low(y)
        h == (High(x) + High(y) + l \div 65536) % 65536
    IN  (IF h >= 32768 THEN h - 65536 ELSE h) * 65536 + (l % 65536)

\* the cell with the 16-bit halves h and l, h taken modulo 2^16
Halves(h, l) ==
    (IF h % 65536 >= 32768 THEN (h % 65536) - 65536 ELSE h % 65536) * 65536 + l

\* the cell congruent to x * c modulo 2^32, for 0 <= c <= 32768: the
\* product of each half of x by c fits the integers of the checker
TimesSmall(x, c) ==
    Halves(High(x) * c + High(Low(x) * c), Low(Low(x) * c))

\* the cell congruent to x * 2^n modulo 2^32, for n in 0..31
Doubled(x, n) ==
    IF n < 16 THEN TimesSmall(x, 2 ^ n)
    ELSE TimesSmall(Halves(Low(x), 0), 2 ^ (n - 16))

\* the 15 bits of the two's complement of y from bit 15 * k on
Limb(y, k) ==
    CASE k = 0 -> y % 32768
      [] k = 1 -> ((y - (y % 32768)) \div 32768) % 32768
      [] k = 2 -> (((y - (y % 32768)) \div 32768) \div 32768) % 4

\* the cell congruent to x * y modulo 2^32: the sum of x times each limb
\* of y, shifted to the place of the limb
ProductMod(x, y) ==
    SumMod(TimesSmall(x, Limb(y, 0)),
           SumMod(Doubled(TimesSmall(x, Limb(y, 1)), 15),
                  Doubled(TimesSmall(x, Limb(y, 2)), 30)))

\* the unsigned view of x, divided by 2^n and rounded down, for n in 0..31
UnsignedShift(x, n) ==
    IF n = 0 THEN x
    ELSE IF n = 31 THEN (IF x < 0 THEN 1 ELSE 0)
    ELSE IF x >= 0 THEN x \div (2 ^ n)
    ELSE (x - MinCell) \div (2 ^ n) + 2 ^ (31 - n)

\* res is the cell that the word w is to leave for the operands a and b
Exact(w, a, b, res) ==
    CASE w = "+" -> res = SumMod(a, b)
      [] w = "-" -> SumMod(res, b) = a
      [] w = "*" -> res = ProductMod(a, b)
      [] w = "AND" -> \A i \in 0..31 : Bit(res, i) = Bit(a, i) * Bit(b, i)
      [] w = "OR" -> \A i \in 0..31 : Bit(res, i) = Max(Bit(a, i), Bit(b, i))
      [] w = "XOR" -> \A i \in 0..31 : Bit(res, i) = (Bit(a, i) + Bit(b, i)) % 2
      [] w = "LSHIFT" -> b \in 0..31 => res = Doubled(a, b)
      [] w = "RSHIFT" -> b \in 0..31 => res = UnsignedShift(a, b)
      [] w = "NEGATE" -> SumMod(res, b) = 0
      [] w = "INVERT" -> res = (-1) - b

\* the next iteration of interpret() executes the word w
ExecuteAhead(w) ==
    /\ TokenAhead
    /\ Token = Spell[w]
    /\ StateCell = 0
    /\ dicts[dict][Token] = P(w)

\* C15: + - * AND OR XOR, LSHIFT and RSHIFT by 0..31, NEGATE and INVERT
\* replace their operands by a cell congruent modulo 2^32 to the exact
\* result, RSHIFT shifting the unsigned view; 0 1 - 1 + gives 0 and
\* 1 31 LSHIFT added to itself gives 0
C15_ArithmeticWraps ==
    /\ [][\A w \in BinaryWords \cup ShiftWords :
            (ExecuteAhead(w) /\ Len(d) >= 2) =>
                /\ Len(d') = Len(d) - 1
                /\ PyTo(d', -1) = PyTo(d, -2)
                /\ InCell(Last(d'))
                /\ Exact(w, PyAt(d, -2), Last(d), Last(d'))]_vars
    /\ [][\A w \in UnaryWords :
            (ExecuteAhead(w) /\ Len(d) >= 1) =>
                /\ Len(d') = Len(d)
                /\ PyTo(d', -1) = PyTo(d, -1)
                /\ InCell(Last(d'))
                /\ Exact(w, 0, Last(d), Last(d'))]_vars
    /\ [](JustRan(<<"0", "1", "-", "1", "+">>) => Ends(d, <<0>>))
    /\ [](JustRan(<<"1", "31", "LSHIFT", "1", "31", "LSHIFT", "+">>)
            => Ends(d, <<0>>))

\* a negative cell has been shifted right and has come out positive
C15_ShiftedUnsigned ==
    /\ JustRan(<<"-1", "1", "RSHIFT">>)
    /\ d = <<MaxCell>>

-----------------------------------------------------------------------------
(* Cells in memory.                                                        *)

StoreCommands == 1
StorePhrases == 3

\* memory is allotted; cells and a byte are stored at addresses that
\* overlap, one at the last byte of memory; a cell is stored and fetched by
\* the interpreter and by a definition
StoreVocab ==
    {<<"8", "ALLOT">>,
     <<"-1", "280", "!">>,
     <<"2147483647", "281", "!">>,
     <<"65", "282", "C!">>,
     <<"7", "HERE", "1", "-", "!">>,
     <<"-5", "282", "!", "282", "@">>,
     <<":", "Y", "-5", "281", "!", "281", "@", ";", "Y">>}

NextStore ==
    \/ \E c \in LinesOf(StoreVocab, StorePhrases) :
            Len(issued) < StoreCommands /\ issue(c)
    \/ issue_return
    \/ AcceptGet
    \/ InterpretStep
    \/ InnerStep

SpecStore == Init /\ [][NextStore]_vars

\* the cells that are stored
Stored == {-1, 65, MaxCell, MinCell}

\* the engine after x a ! a @
RoundTrip(x, a) ==
    Then(Then(Then(Then(lit(lit(Self, x), a), store),
                   LAMBDA m : lit(m, a)), fetch), LAMBDA m : m)

\* C16: x a ! followed by a @ pushes x, for every address a of the memory
\* allotted so far, whatever was stored before; checked for ! and @ applied
\* to the engine whenever a line has ended, and for the two phrases of
\* StoreVocab that the interpreter and a definition run
C16_StoreThenFetch ==
    /\ Parked =>
         \A a \in 0..(Len(ram) - 1) : \A x \in Stored :
            /\ Ok(RoundTrip(x, a))
            /\ RoundTrip(x, a).d = Append(d, x)
    /\ JustRan(<<"-5", "282", "!", "282", "@">>) => Ends(d, <<-5>>)
    /\ JustRan(<<":", "Y", "-5", "281", "!", "281", "@", ";", "Y">>)
            => Ends(d, <<-5>>)

\* a cell has been stored over the upper half of an earlier one, at the end
\* of memory, and fetched
C16_OverlappingStores ==
    /\ JustRan(<<"8", "ALLOT", "-1", "280", "!", "-5", "282", "!", "282", "@">>)
    /\ d = <<-5>>
    /\ SubSeq(ram, 281, 286) = <<255, 255, 251, 255, 255, 255>>

-----------------------------------------------------------------------------
(* Loops that end by the test, by LEAVE and by ?DO.                        *)

LeaveCommands == 1
LeavePhrases == 1

\* definitions of Y with a loop, and what Y pushes
LeaveCases ==
    {<<<<"3", "0", "DO", "I", "LOOP">>, <<0, 1, 2>>>>,
     <<<<"-2", "0", "DO", "I", "-1", "+LOOP">>, <<0, -1, -2>>>>,
     <<<<"10", "0", "DO", "I", "I", "IF", "LEAVE", "THEN", "LOOP">>, <<0, 1>>>>,
     <<<<"10", "0", "?DO", "I", "LEAVE", "5", "+LOOP">>, <<0>>>>,
     <<<<"5", "3", "DO", "I", "2", "0", "DO", "I", "LEAVE", "LOOP", "I", "LOOP">>,
       <<3, 0, 3, 4, 0, 4>>>>,
     <<<<"2", "0", "DO", "3", "3", "?DO", "I", "LOOP", "I", "LOOP">>, <<0, 1>>>>,
     <<<<"2", "0", "DO", "I", "LEAVE", "3", "0", "DO", "I", "LOOP", "LOOP">>,
       <<0>>>>}

\* : Y 7 ... 9 ; Y
LeaveLine(c) == <<":", "Y", "7">> \o c[1] \o <<"9", ";", "Y">>

LeaveVocab == {LeaveLine(c) : c \in LeaveCases}

NextLeave ==
    \/ \E c \in LinesOf(LeaveVocab, LeavePhrases) :
            Len(issued) < LeaveCommands /\ issue(c)
    \/ issue_return
    \/ AcceptGet
    \/ InterpretStep
    \/ InnerStep

SpecLeave == Init /\ [][NextLeave]_vars

\* C17: when a loop has finished (UNLOOP has run), the length of the return
\* stack and loopC and loopL are what they were when DO or ?DO started it;
\* LEAVE ends the innermost loop only, the loop around it goes on with its
\* own index and limit; when Y has returned no loop is left open
C17_LoopsRestore ==
    /\ loops.k > 0 => loops.now = loops.was
    /\ \A c \in LeaveCases :
          JustRan(LeaveLine(c)) =>
            /\ Ends(d, <<7>> \o c[2] \o <<9>>)
            /\ loops.open = <<>>
            /\ Len(r) = 0 /\ loopC = 0 /\ loopL = 0

\* the inner of two loops has ended by LEAVE and has given back the index 4
\* and the limit 5 of the outer one
C17_InnerLeft ==
    /\ loops.k = 2
    /\ loops.was = <<2, 4, 5>>
    /\ loops.now = <<2, 4, 5>>
    /\ Len(loops.open) = 1
    /\ Ends(d, <<3, 0, 3, 4, 0>>)

-----------------------------------------------------------------------------
(* Lines of any length.                                                    *)

LongCommands == 2

\* the lengths of the lines: short, the size of the TIB, one more, and
\* past the STATE cell
LineLengths == {10, 256, 257, 280}

LongVocab == {<<"1">>, <<"1", "DUP">>, <<"STATE", "@">>}

\* n spaces
Spaces(n) == [i \in 1..n |-> 32]

\* the line of the words p, filled with spaces to n characters
Padded(p, n) == Line(p) \o Spaces(n - Len(Line(p)))

NextLong ==
    \/ \E p \in LongVocab, n \in LineLengths :
            Len(issued) < LongCommands /\ issue(Padded(p, n))
    \/ issue_return
    \/ AcceptGet
    \/ InterpretStep

SpecLong == Init /\ [][NextLong]_vars

\* C18: when REFILL has received a line, of any length, SOURCEA is TIB,
\* >IN is 0, SOURCEC is the number of characters stored and at most 256,
\* the TIB holds that many characters of the line, and BASE, STATE and all
\* memory after them are as before
C18_RefillStaysInTib ==
    [][(Parked /\ cmdq # <<>>) =>
          /\ Cell(ram', SOURCEA_ADDR) = TIB_ADDR
          /\ Cell(ram', TO_IN_ADDR) = 0
          /\ Cell(ram', SOURCEC_ADDR) = Min(Len(Head(cmdq)[2]), 256)
          /\ SubSeq(ram', 1, Cell(ram', SOURCEC_ADDR))
                = SubSeq(Head(cmdq)[2], 1, Cell(ram', SOURCEC_ADDR))
          /\ Len(ram') = Len(ram)
          /\ SubSeq(ram', BASE_ADDR + 1, Len(ram))
                = SubSeq(ram, BASE_ADDR + 1, Len(ram))]_vars

-----------------------------------------------------------------------------
(* Definitions with nested control structures.                             *)

NestCommands == 1

\* properly nested pieces of a definition
Pieces ==
    {<<>>,
     <<"IF", "1", "THEN">>,
     <<"AHEAD", "1", "THEN">>,
     <<"BEGIN", "1", "AGAIN">>,
     <<"BEGIN", "1", "UNTIL">>,
     <<"DO", "I", "IF", "LEAVE", "THEN", "LOOP">>,
     <<"?DO", "LEAVE", "LEAVE", "1", "+LOOP">>,
     <<"BEGIN", "IF", "DO", "LEAVE", "LOOP", "THEN", "UNTIL">>,
     <<"DO", "?DO", "I", "LEAVE", "LOOP", "LEAVE", "LOOP">>,
     <<"IF", "BEGIN", "1", "UNTIL", "AHEAD", "THEN", "THEN">>}

\* 7 : Y p q ;
NestLine(p, q) == <<"7", ":", "Y">> \o p \o q \o <<";">>

NextNest ==
    \/ \E p \in Pieces, q \in Pieces :
            Len(issued) < NestCommands /\ issue(Line(NestLine(p, q)))
    \/ issue_return
    \/ AcceptGet
    \/ InterpretStep

SpecNest == Init /\ [][NextNest]_vars

\* the code of the word Y
CodeOfY == codes[CurDict(Self)[Text("Y")].args[1]]

\* the branches of the sequence c have one target each, inside c or at its end
Resolved(c) ==
    \A i \in 1..Len(c) :
        c[i].n \in {"branch", "zbranch"} =>
            Len(c[i].args) = 1 /\ c[i].args[1] \in 0..Len(c)

\* the number of branches in the sequence c
Branches(c) == Cardinality({i \in 1..Len(c) : c[i].n \in {"branch", "zbranch"}})

\* C19: when ; has closed a definition made of properly nested IF, AHEAD,
\* THEN, BEGIN, AGAIN, UNTIL, DO, ?DO, LOOP, +LOOP and LEAVE, each branch
\* and zbranch of its code has exactly one target, between 0 and the length
\* of the code; the stack of leave lists is as deep as at : (empty), and so
\* is the data stack (it holds the 7 pushed before :)
C19_BranchesResolved ==
    \A p \in Pieces, q \in Pieces :
        JustRan(NestLine(p, q)) =>
            /\ Text("Y") \in DOMAIN CurDict(Self)
            /\ Resolved(CodeOfY)
            /\ leaves = <<>>
            /\ Ends(d, <<7>>)
            /\ Len(d) = Len(issued)

\* a definition with two loops, one inside the other, and a third after
\* them has been closed: it holds nine branches
C19_NestedClosed ==
    /\ JustRan(NestLine(<<"DO", "?DO", "I", "LEAVE", "LOOP", "LEAVE", "LOOP">>,
                        <<"?DO", "LEAVE", "LEAVE", "1", "+LOOP">>))
    /\ Branches(CodeOfY) = 9

-----------------------------------------------------------------------------
(* Parsing a line.                                                         *)

ParseCommands == 1

\* two numbers with a spaces before, b between and c after them
Spaced(a, v, b, w, c) == Spaces(a) \o Text(v) \o Spaces(b) \o Text(w) \o Spaces(c)

\* the end of the line, " 5", is evaluated, and then interpreted
Evaluated == Line(<<"SOURCE", ">IN", "@", "22", "+", "/STRING", "EVALUATE">>)
                \o Spaces(2) \o Text("5")

NextParse ==
    \/ \E a \in {0, 2}, b \in {1, 3}, c \in {0, 1, 2}, v \in {"1", "22"},
          w \in {"1", "22"} :
            Len(issued) < ParseCommands /\ issue(Spaced(a, v, b, w, c))
    \/ \E n \in {0, 1, 3} : Len(issued) < ParseCommands /\ issue(Spaces(n))
    \/ Len(issued) < ParseCommands /\ issue(Evaluated)
    \/ issue_return
    \/ AcceptGet
    \/ InterpretStep

\* the host thread returns from ready.wait() when the event is set, and the
\* engine thread runs whenever it can
SpecParse ==
    /\ Init /\ [][NextParse]_vars
    /\ WF_vars(issue_return)
    /\ EngineFair

\* the engine with k in >IN
AtOffset(k) ==
    [Self EXCEPT !.ram = PySetSlice(@, TO_IN_ADDR, TO_IN_ADDR + 4, pack(k))]

\* the source and what is left of it from the offset k
SourceEnd == Cell(ram, SOURCEA_ADDR) + Cell(ram, SOURCEC_ADDR)
OnlySpacesFrom(k) ==
    \A i \in (Cell(ram, SOURCEA_ADDR) + k)..(SourceEnd - 1) : PyAt(ram, i) = 32

\* the engine m is the engine with k in >IN after a parse that has stopped
\* at ch: the string on the stack lies in the source and holds no ch, >IN
\* has not gone back and is inside the line, and nothing else has changed
Parsed(m, k, ch) ==
    /\ Ok(m)
    /\ Len(m.d) = Len(d) + 2
    /\ PyTo(m.d, -2) = d
    /\ m.r = r
    /\ Len(m.ram) = Len(ram)
    /\ \A i \in 0..(Len(ram) - 1) :
            i \notin TO_IN_ADDR..(TO_IN_ADDR + 3) => PyAt(m.ram, i) = PyAt(ram, i)
    /\ k <= Cell(m.ram, TO_IN_ADDR)
    /\ Cell(m.ram, TO_IN_ADDR) <= Cell(ram, SOURCEC_ADDR)
    /\ Last(m.d) >= 0
    /\ Cell(ram, SOURCEA_ADDR) + k <= PyAt(m.d, -2)
    /\ PyAt(m.d, -2) + Last(m.d) <= SourceEnd
    /\ \A i \in 0..(Last(m.d) - 1) : PyAt(ram, PyAt(m.d, -2) + i) # ch
    /\ \/ PyAt(m.d, -2) + Last(m.d) = SourceEnd
          /\ Cell(m.ram, TO_IN_ADDR) = Cell(ram, SOURCEC_ADDR)
       \/ PyAt(m.d, -2) + Last(m.d) < SourceEnd
          /\ PyAt(ram, PyAt(m.d, -2) + Last(m.d)) = ch
          /\ Cell(m.ram, TO_IN_ADDR) + Cell(ram, SOURCEA_ADDR)
                = PyAt(m.d, -2) + Last(m.d) + 1

\* the words of the line l, split at spaces
RECURSIVE Words(_, _)
Words(l, w) ==
    IF l = <<>> THEN (IF w = <<>> THEN <<>> ELSE <<w>>)
    ELSE IF Head(l) = 32
         THEN (IF w = <<>> THEN <<>> ELSE <<w>>) \o Words(Tail(l), <<>>)
    ELSE Words(Tail(l), Append(w, Head(l)))

\* the numbers that the lines of numbers push
NumberOf == Text("1") :> 1 @@ Text("22") :> 22

\* what the lines ls push, if they hold numbers only
RECURSIVE Pushed(_)
Pushed(ls) ==
    IF ls = <<>> THEN <<>>
    ELSE [i \in 1..Len(Words(Head(ls), <<>>)) |->
              NumberOf[Words(Head(ls), <<>>)[i]]] \o Pushed(Tail(ls))

OnlyNumbers(ls) ==
    \A j \in 1..Len(ls) : \A i \in 1..Len(Words(ls[j], <<>>)) :
        Words(ls[j], <<>>)[i] \in DOMAIN NumberOf

\* C20: PARSE-NAME and PARSE from any >IN in 0..SOURCEC leave >IN at or
\* after where it was and at most at SOURCEC, and a string inside the source;
\* the string of PARSE-NAME holds no space and is empty exactly when only
\* spaces were left; so interpret() takes each word of a line once, in order
\* (a line of numbers pushes them in order), and comes to the end of the line
C20_ParseStaysInLine ==
    /\ [](AtInterpret =>
            \A k \in 0..Cell(ram, SOURCEC_ADDR) :
                /\ Parsed(parse_name(AtOffset(k)), k, 32)
                /\ (Last(parse_name(AtOffset(k)).d) = 0) <=> OnlySpacesFrom(k)
                /\ \A i \in k..(Cell(parse_name(AtOffset(k)).ram, TO_IN_ADDR) - 1
                                    - Last(parse_name(AtOffset(k)).d) - 1) :
                        PyAt(ram, Cell(ram, SOURCEA_ADDR) + i) = 32
                /\ \A ch \in {32, 49, 0} :
                        /\ Parsed(PARSE(lit(AtOffset(k), ch)), k, ch)
                        /\ PyAt(PARSE(lit(AtOffset(k), ch)).d, -2)
                                = Cell(ram, SOURCEA_ADDR) + k)
    /\ []((Parked /\ cmdq = <<>> /\ OnlyNumbers(issued)) => d = Pushed(issued))
    /\ (cmdq # <<>>) ~> (Parked /\ cmdq = <<>> /\ host = "idle")

\* a line with spaces before, between and after two numbers has been
\* interpreted to its end
C20_SpacedLineDone ==
    /\ Parked /\ cmdq = <<>>
    /\ issued = <<Spaced(2, "22", 3, "1", 2)>>
    /\ d = <<22, 1>>
    /\ Cell(ram, TO_IN_ADDR) = 10

-----------------------------------------------------------------------------
(* EVALUATE and the source of the caller.                                  *)

EvalCommands == 1

\* the words that evaluate what follows them in the source they are in
EvalRest == <<"SOURCE", ">IN", "@", "22", "+", "/STRING", "EVALUATE">>

EvalVocab ==
    {<<"1">> \o EvalRest \o <<"5">>,
     <<"1">> \o EvalRest \o <<"2">> \o EvalRest \o <<"5">>,
     <<"0", "0", "EVALUATE", "5">>,
     EvalRest \o <<"7", ">R", "R>">>,
     <<"7", ">R">> \o EvalRest \o <<"2">>,
     <<":", "Y", "SOURCE", ">IN", "@", "/STRING", "EVALUATE", "7", ";",
       "Y", "5">>,
     <<":", "Y", "9", ">R", "0", "0", "EVALUATE", "R>", ";", "Y">>}

NextEval ==
    \/ \E ws \in EvalVocab : Len(issued) < EvalCommands /\ issue(Line(ws))
    \/ issue_return
    \/ AcceptGet
    \/ InterpretStep
    \/ InnerStep

SpecEval == Init /\ [][NextEval]_vars

\* the interpret() that EVALUATE called has come to the end of the text
EvaluateEnds ==
    /\ AtInterpret
    /\ Len(frames) >= 2
    /\ frames[Len(frames) - 1].k = "EVALUATE"
    /\ Ok(Ahead)
    /\ Last(Ahead.d) = 0

\* C21: when the text given to EVALUATE has been interpreted to its end,
\* EVALUATE returns with SOURCEA, SOURCEC and >IN and the length of the
\* return stack as they were when it was called, also when it was called
\* from evaluated text and from a definition; the line goes on after the
\* word EVALUATE: the words that follow it run once, after the text
C21_EvaluateRestoresSource ==
    /\ [][(EvaluateEnds /\ frames' # frames /\ exc'.t = "")
            => /\ Len(frames') < Len(frames) - 1
               /\ <<Len(r'), Cell(ram', SOURCEA_ADDR), Cell(ram', SOURCEC_ADDR),
                    Cell(ram', TO_IN_ADDR)>> = frames[Len(frames) - 1].g]_vars
    /\ [](JustRan(<<"1">> \o EvalRest \o <<"5">>) => Ends(d, <<1, 5, 5>>))
    /\ [](JustRan(<<"1">> \o EvalRest \o <<"2">> \o EvalRest \o <<"5">>)
            => Ends(d, <<1, 2, 5, 5, 2, 5, 5>>))
    /\ [](JustRan(<<"0", "0", "EVALUATE", "5">>) => Ends(d, <<5>>))
    /\ [](JustRan(EvalRest \o <<"7", ">R", "R>">>) => Ends(d, <<7, 7>>))
    /\ [](JustRan(<<"7", ">R">> \o EvalRest \o <<"2">>)
            => Ends(d, <<2, 2>>) /\ Ends(r, <<7>>))
    /\ [](JustRan(<<"Y", "5">>) => Ends(d, <<5, 7, 5>>))
    /\ [](JustRan(<<"EVALUATE", "R>", ";", "Y">>) => Ends(d, <<9>>))

\* an EVALUATE called from evaluated text has returned into that text: the
\* source is the text of the outer EVALUATE, 38 characters from address 37
\* on, and the next word is the 5 after the inner EVALUATE
C21_NestedReturned ==
    /\ AtInterpret
    /\ Len(frames) >= 2
    /\ frames[Len(frames) - 1].k = "EVALUATE"
    /\ Source(Self) = <<37, 38, 37>>
    /\ d = <<1, 2, 5>>

-----------------------------------------------------------------------------
(* Stores and the length of memory.                                        *)

\* the next iteration of interpret() executes w with an address on top of
\* the stack and a value below it, the address inside the memory allotted
StoreAhead(w) ==
    /\ ExecuteAhead(w)
    /\ Len(d) >= 2
    /\ 0 <= Last(d) /\ Last(d) < Len(ram)

\* the next iteration of interpret() executes a word that allots or
\* releases memory
AllotAhead ==
    \/ ExecuteAhead("ALLOT") \/ ExecuteAhead(",") \/ ExecuteAhead("C,")
    \/ MarkersAhead # {}

\* C22: ! and C! at an address a below HERE leave the length of memory as
\* it was and change no byte outside a..a+3 (for !) or a (for C!); and only
\* ALLOT, the words , and C, and a MARKER word change the length of memory
C22_StoresKeepHere ==
    /\ [][(StoreAhead("!") /\ ram' # ram)
            => /\ Len(ram') = Len(ram)
               /\ \A i \in 0..(Len(ram) - 1) :
                    i \notin Last(d)..(Last(d) + 3)
                        => PyAt(ram', i) = PyAt(Ahead.ram, i)]_vars
    /\ [][(StoreAhead("C!") /\ ram' # ram)
            => /\ Len(ram') = Len(ram)
               /\ \A i \in 0..(Len(ram) - 1) :
                    i # Last(d) => PyAt(ram', i) = PyAt(Ahead.ram, i)]_vars
    /\ [][(AtInterpret /\ Len(ram') # Len(ram)) => AllotAhead]_vars

=============================================================================
